---------------------------- MODULE Spec2Model ----------------------------
(***************************************************************************)
(* Model of the backend of the insider signal verifier: the detector       *)
(* SECFilingAnalyzer.detect_insider_selling_signal with                    *)
(* _calculate_confidence, the Form 4 parser, the upload to IPFS and the    *)
(* proof generation (src/backend/analyzer.py), and the request handlers of *)
(* src/backend/api.py.                                                     *)
(*                                                                         *)
(* A Python str is the tuple of its code points, so that str.lower(),      *)
(* str.strip(), the `in' substring test, int() and                         *)
(* datetime.fromisoformat are computed character by character.             *)
(*                                                                         *)
(* A Python number is a record with the fields kind ("int" or "float"),    *)
(* class ("finite", "inf" or "nan"), neg (the sign) and, for a finite      *)
(* value, m and e with |x| = m * 2^e.  m is a natural number of any size,  *)
(* written as the sequence of its digits in base 2^14, least significant   *)
(* first (empty for zero).  An int has e = 0 and any m; a float is an IEEE *)
(* 754 double, with m odd and of at most 53 bits.  Every float operation   *)
(* computes the exact result and rounds it to 53 bits, ties to even, with  *)
(* subnormals and overflow to infinity as the hardware does.               *)
(*                                                                         *)
(* An exception that leaves a call is the record Raised(name).             *)
(***************************************************************************)
EXTENDS Integers, Sequences, FiniteSets, TLC

VARIABLES
  transactions,  \* the record list given to the detector
  threshold,     \* the threshold given to the detector
  result,        \* what the detector returned or raised
  pc,            \* the position of the caller
  clock,         \* the wall clock read by datetime.now()
  analyzer,      \* the fields of the SECFilingAnalyzer instance
  heap,          \* the list objects held by the callers of concurrent calls
  frames,        \* the local variables of the calls and requests
  fs,            \* the files under /tmp
  ipfs_added     \* the contents added to the IPFS node

vars ==
  <<transactions, threshold, result, pc, clock, analyzer, heap, frames, fs,
    ipfs_added>>

(***************************************************************************)
(* Bounds of the model.                                                    *)
(***************************************************************************)
MaxTx == 2

MaxShares == 2

MaxFixtures == 3

(***************************************************************************)
(* Natural numbers of any size.                                            *)
(***************************************************************************)
MaxOf(S) == CHOOSE x \in S : \A y \in S : y <= x

MinOf(S) == CHOOSE x \in S : \A y \in S : x <= y

Range(s) == {s[i] : i \in 1..Len(s)}

Pow2 == [n \in 0..30 |-> 2^n]

Limb(a, i) == IF i >= 1 /\ i <= Len(a) THEN a[i] ELSE 0

\* Without leading zero digits.
Trim(a) ==
  IF a = <<>> \/ a[Len(a)] # 0 THEN a
  ELSE LET nz == {i \in 1..Len(a) : a[i] # 0}
       IN  IF nz = {} THEN <<>> ELSE SubSeq(a, 1, MaxOf(nz))

\* The number n >= 0 of the machine.
BFromInt(n) == Trim(<<n % Pow2[14], (n \div Pow2[14]) % Pow2[14], n \div Pow2[28]>>)

\* -1, 0 or 1 as a < b, a = b or a > b.
BCmp(a, b) ==
  LET diff == {i \in 1..Len(a) : a[i] # Limb(b, i)}
  IN  IF Len(a) # Len(b) THEN (IF Len(a) < Len(b) THEN -1 ELSE 1)
      ELSE IF diff = {} THEN 0
      ELSE IF a[MaxOf(diff)] < b[MaxOf(diff)] THEN -1 ELSE 1

BAdd(a, b) ==
  LET n == (IF Len(a) > Len(b) THEN Len(a) ELSE Len(b)) + 1
      s == [j \in 1..n |-> Limb(a, j) + Limb(b, j)]
      carry(j) == \E i \in 1..(j - 1) :
                    s[i] >= Pow2[14] /\ \A k \in (i + 1)..(j - 1) : s[k] = Pow2[14] - 1
  IN  IF a = <<>> THEN b
      ELSE IF b = <<>> THEN a
      ELSE Trim([j \in 1..n |-> (s[j] + (IF carry(j) THEN 1 ELSE 0)) % Pow2[14]])

\* a - b for a >= b.
BSub(a, b) ==
  LET s == [j \in 1..Len(a) |-> a[j] - Limb(b, j)]
      borrow(j) == \E i \in 1..(j - 1) :
                     s[i] < 0 /\ \A k \in (i + 1)..(j - 1) : s[k] = 0
  IN  IF a = b THEN <<>>
      ELSE IF b = <<>> THEN a
      ELSE Trim([j \in 1..Len(a) |->
                   (s[j] - (IF borrow(j) THEN 1 ELSE 0) + Pow2[14]) % Pow2[14]])

\* The number whose digit j is c[j], for c[j] < 2^31.
FromColumns(c) ==
  IF c = <<>> THEN <<>>
  ELSE BAdd(BAdd(Trim([j \in 1..Len(c) |-> c[j] % Pow2[14]]),
                 Trim([j \in 1..(Len(c) + 1) |->
                         IF j = 1 THEN 0 ELSE (c[j - 1] \div Pow2[14]) % Pow2[14]])),
            Trim([j \in 1..(Len(c) + 2) |->
                    IF j <= 2 THEN 0 ELSE c[j - 2] \div Pow2[28]]))

\* a * k for k < 2^17.
BMulSmall(a, k) ==
  IF a = <<>> \/ k = 0 THEN <<>> ELSE FromColumns([j \in 1..Len(a) |-> a[j] * k])

\* a * b for a of four digits or fewer (53 bits).
BMul(a, b) ==
  IF a = <<>> \/ b = <<>> THEN <<>>
  ELSE FromColumns([j \in 1..(Len(a) + Len(b)) |->
                      Limb(a, 1) * Limb(b, j) + Limb(a, 2) * Limb(b, j - 1)
                        + Limb(a, 3) * Limb(b, j - 2) + Limb(a, 4) * Limb(b, j - 3)])

\* a * 2^n
BShl(a, n) ==
  LET q == n \div 14
      r == n % 14
  IN  IF a = <<>> \/ n = 0 THEN a
      ELSE Trim([j \in 1..(Len(a) + q + 1) |->
                   ((Limb(a, j - q) * Pow2[r]) % Pow2[14])
                     + ((Limb(a, j - q - 1) * Pow2[r]) \div Pow2[14])])

\* a \div 2^n
BShr(a, n) ==
  LET q == n \div 14
      r == n % 14
  IN  IF n = 0 THEN a
      ELSE IF q >= Len(a) THEN <<>>
      ELSE Trim([j \in 1..(Len(a) - q) |->
                   (Limb(a, j + q) \div Pow2[r])
                     + (Limb(a, j + q + 1) % Pow2[r]) * Pow2[14 - r]])

IntBitLen(x) ==
  IF x = 0 THEN 0 ELSE CHOOSE n \in 1..31 : Pow2[n - 1] <= x /\ (n = 31 \/ x < Pow2[n])

\* The number of bits of a.
BBitLen(a) == IF a = <<>> THEN 0 ELSE 14 * (Len(a) - 1) + IntBitLen(a[Len(a)])

\* Bit i of a, bit 0 being the lowest.
BBit(a, i) == (Limb(a, i \div 14 + 1) \div Pow2[i % 14]) % 2

\* The n lowest bits of a are zero.
BLowZero(a, n) ==
  /\ \A i \in 1..(n \div 14) : Limb(a, i) = 0
  /\ Limb(a, n \div 14 + 1) % Pow2[n % 14] = 0

\* The number of zero bits at the low end of a > 0.
TrailingZeros(a) ==
  LET i == MinOf({j \in 1..Len(a) : a[j] # 0})
  IN  14 * (i - 1) + (CHOOSE n \in 0..13 : a[i] % Pow2[n + 1] = Pow2[n])

\* Long division, one digit of the dividend per step from the highest down;
\* prev is the pair of the quotient and the remainder so far, d the divisor
\* with its highest bit set.
BLongDivStep(prev, digit, d) ==
  IF prev[2] = <<>> /\ digit = 0 THEN <<Trim(<<0>> \o prev[1]), <<>>>>
  ELSE LET n == Len(d)
           r == Trim(<<digit>> \o prev[2])
           est == (Limb(r, n + 1) * Pow2[14] + Limb(r, n)) \div d[n]
           q0 == IF est > Pow2[14] - 1 THEN Pow2[14] - 1 ELSE est
           q == IF BCmp(BMulSmall(d, q0), r) <= 0 THEN q0
                ELSE IF BCmp(BMulSmall(d, q0 - 1), r) <= 0 THEN q0 - 1
                ELSE q0 - 2
       IN  <<Trim(<<q>> \o prev[1]), BSub(r, BMulSmall(d, q))>>

RECURSIVE BLongDiv(_, _, _)
BLongDiv(a, d, i) ==
  IF i > Len(a) - Len(d) + 1
    THEN <<<<>>, IF i > Len(a) THEN <<>> ELSE Trim(SubSeq(a, i, Len(a)))>>
    ELSE BLongDivStep(BLongDiv(a, d, i + 1), a[i], d)

(***************************************************************************)
(* Calls.  call_f(x) is the call of the function f with the arguments x.   *)
(* The functions of the program call one another in this form, by name,    *)
(* through the operator call that follows the last of them.                *)
(***************************************************************************)
RECURSIVE call(_, _)

call_BDiv(a, d) == call("BDiv", <<a, d>>)

call_RoundFloat(neg, n, e, sticky) == call("RoundFloat", <<neg, n, e, sticky>>)

call_int_add(x, y) == call("int_add", <<x, y>>)

call_float_mul(a, b) == call("float_mul", <<a, b>>)

call_float_truediv(a, b) == call("float_truediv", <<a, b>>)

call_float_sum(x, y) == call("float_sum", <<x, y>>)

call_float_lt(x, y) == call("float_lt", <<x, y>>)

call_Round2(x) == call("Round2", <<x>>)

call_Literal(n, d) == call("Literal", <<n, d>>)

call_lower(s) == call("lower", <<s>>)

call_strip(s) == call("strip", <<s>>)

call_to_ascii(text) == call("to_ascii", <<text>>)

call_int_value(digits, base) == call("int_value", <<digits, base>>)

call_int_stripped(t) == call("int_stripped", <<t>>)

call_int_of(neg, body, base) == call("int_of", <<neg, body, base>>)

call_int_parsed(core, base) == call("int_parsed", <<core, base>>)

call_RoleWeight(title) == call("RoleWeight", <<title>>)

call_iso_week1_monday(year) == call("iso_week1_monday", <<year>>)

call_iso_to_ymd(iso_year, iso_week, iso_day) == call("iso_to_ymd", <<iso_year, iso_week, iso_day>>)

call_find_isoformat_datetime_separator(s) == call("find_isoformat_datetime_separator", <<s>>)

call_parse_isoformat_date(s, len) == call("parse_isoformat_date", <<s, len>>)

call_parse_fraction(s, p, p_end, fields) == call("parse_fraction", <<s, p, p_end, fields>>)

call_parse_hh_mm_ss_ff(s, tstr, p_end) == call("parse_hh_mm_ss_ff", <<s, tstr, p_end>>)

call_parse_isoformat_time(s, p) == call("parse_isoformat_time", <<s, p>>)

call_fromisoformat(date_string) == call("fromisoformat", <<date_string>>)

call_date_range_days(dates) == call("date_range_days", <<dates>>)

call_role_weight_of(title) == call("role_weight_of", <<title>>)

call_date_of(text) == call("date_of", <<text>>)

call_Accumulate(f, t, n) == call("Accumulate", <<f, t, n>>)

call_percentage_sold(total_sold, ownership) == call("percentage_sold", <<total_sold, ownership>>)

call_threshold_factor(pct, thr) == call("threshold_factor", <<pct, thr>>)

call_insider_factor(num_insiders) == call("insider_factor", <<num_insiders>>)

call_role_factor(mult) == call("role_factor", <<mult>>)

call_calculate_confidence(pct, thr, num_insiders, clustered, mult) == call("calculate_confidence", <<pct, thr, num_insiders, clustered, mult>>)

call_InsiderSignal(l, txs, now) == call("InsiderSignal", <<l, txs, now>>)

call_finish(f, txs, now) == call("finish", <<f, txs, now>>)

call_detect_insider_selling_signal(txs, thr, now) == call("detect_insider_selling_signal", <<txs, thr, now>>)

call_parse_element(owner, e) == call("parse_element", <<owner, e>>)

call_analysed_upload(f, now) == call("analysed_upload", <<f, now>>)

call_analysed_filing(content, now) == call("analysed_filing", <<content, now>>)

call_int_rshift(x, n) == call("int_rshift", <<x, n>>)

call_int_and_mask(x, n) == call("int_and_mask", <<x, n>>)

call_to_bytes(x, length) == call("to_bytes", <<x, length>>)

call_combined_bytes(x) == call("combined_bytes", <<x>>)

call_prepared(f, salt) == call("prepared", <<f, salt>>)

\* The pair of a \div d and whether the division is exact, for d > 0.
BDiv(a, d) ==
  LET t == 14 - IntBitLen(d[Len(d)])
      qr == BLongDiv(BShl(a, t), BShl(d, t), 1)
  IN  <<qr[1], qr[2] = <<>>>>

(***************************************************************************)
(* IEEE 754 doubles and the arithmetic of Python floats.                   *)
(***************************************************************************)
Inf(neg) == [kind |-> "float", class |-> "inf", neg |-> neg, m |-> <<>>, e |-> 0]

NaN == [kind |-> "float", class |-> "nan", neg |-> FALSE, m |-> <<>>, e |-> 0]

\* The double m * 2^e for m of at most 53 bits and e >= -1074.
Float(neg, m, e) ==
  IF m = <<>> THEN [kind |-> "float", class |-> "finite", neg |-> neg, m |-> <<>>, e |-> 0]
  ELSE IF BBitLen(m) + e > 1024 THEN Inf(neg)
  ELSE [kind |-> "float", class |-> "finite", neg |-> neg,
        m |-> BShr(m, TrailingZeros(m)), e |-> e + TrailingZeros(m)]

\* The double nearest to n * 2^e, ties to even; sticky tells that the exact
\* value is a little above n * 2^e.
RoundFloat(neg, n, e, sticky) ==
  LET k == IF BBitLen(n) - 53 > -1074 - e THEN BBitLen(n) - 53 ELSE -1074 - e
  IN  IF k <= 0 THEN Float(neg, n, e)
      ELSE LET q == BShr(n, k)
               half == BBit(n, k - 1) = 1
               below == ~BLowZero(n, k - 1) \/ sticky
               up == half /\ (below \/ BBit(q, 0) = 1)
           IN  Float(neg, IF up THEN BAdd(q, <<1>>) ELSE q, e + k)

\* The float n.0, for |n| < 2^31.
float(n) == Float(n < 0, BFromInt(IF n < 0 THEN -n ELSE n), 0)

\* The int of sign neg and magnitude m.
BigInt(neg, m) ==
  [kind |-> "int", class |-> "finite", neg |-> neg /\ Trim(m) # <<>>, m |-> Trim(m), e |-> 0]

\* The int n, for |n| < 2^31.
PyInt(n) == BigInt(n < 0, BFromInt(IF n < 0 THEN -n ELSE n))

\* x + y of two ints.
int_add(x, y) ==
  IF x.neg = y.neg THEN BigInt(x.neg, BAdd(x.m, y.m))
  ELSE IF BCmp(x.m, y.m) >= 0 THEN BigInt(x.neg, BSub(x.m, y.m))
  ELSE BigInt(y.neg, BSub(y.m, x.m))

(***************************************************************************)
(* An exception that leaves a call.                                        *)
(***************************************************************************)
Raised(e) == [kind |-> "Raise", exc |-> e]

ValueError == Raised("ValueError")

(***************************************************************************)
(* Arithmetic with a float operand.  An int operand is converted to a      *)
(* float first, and an int beyond the doubles raises OverflowError there,  *)
(* whatever the other operand is.                                          *)
(***************************************************************************)
\* The operand of a float operation: an int is converted to the nearest
\* double.
as_float(x) == IF x.kind = "int" THEN call_RoundFloat(x.neg, x.m, 0, FALSE) ELSE x

\* The conversion of the int x to a float raises OverflowError.
TooLarge(x) == x.kind = "int" /\ as_float(x).class = "inf"

IsZero(x) == x.class = "finite" /\ x.m = <<>>

\* a * b with at least one float operand.
float_mul(a, b) ==
  LET x == as_float(a)
      y == as_float(b)
  IN  IF (a.kind = "int" /\ x.class = "inf") \/ (b.kind = "int" /\ y.class = "inf")
        THEN Raised("OverflowError")
      ELSE IF x.class = "nan" \/ y.class = "nan" THEN NaN
      ELSE IF x.class = "inf" \/ y.class = "inf"
        THEN IF IsZero(x) \/ IsZero(y) THEN NaN ELSE Inf(x.neg # y.neg)
      ELSE IF x.m = <<>> \/ y.m = <<>> THEN Float(x.neg # y.neg, <<>>, 0)
      ELSE call_RoundFloat(x.neg # y.neg, BMul(x.m, y.m), x.e + y.e, FALSE)

\* a / b.  With a float operand an int operand is converted first, and the
\* quotient of two floats may be infinite.  Two ints of any size are divided
\* exactly and the quotient is rounded once; a quotient beyond the doubles
\* raises OverflowError.  A zero divisor raises ZeroDivisionError.
float_truediv(a, b) ==
  LET ints == a.kind = "int" /\ b.kind = "int"
      x == IF ints THEN a ELSE as_float(a)
      y == IF ints THEN b ELSE as_float(b)
      s == 56 + BBitLen(y.m) - BBitLen(x.m)
      qr == IF s >= 0 THEN call_BDiv(BShl(x.m, s), y.m) ELSE call_BDiv(x.m, BShl(y.m, -s))
      quotient == call_RoundFloat(x.neg # y.neg, qr[1], x.e - y.e - s, ~qr[2])
  IN  IF ~ints /\ ((a.kind = "int" /\ x.class = "inf") \/ (b.kind = "int" /\ y.class = "inf"))
        THEN Raised("OverflowError")
      ELSE IF IsZero(y) THEN Raised("ZeroDivisionError")
      ELSE IF x.class = "nan" \/ y.class = "nan" THEN NaN
      ELSE IF x.class = "inf" THEN IF y.class = "inf" THEN NaN ELSE Inf(x.neg # y.neg)
      ELSE IF y.class = "inf" \/ x.m = <<>> THEN Float(x.neg # y.neg, <<>>, 0)
      ELSE IF ints /\ quotient.class = "inf" THEN Raised("OverflowError")
      ELSE quotient

\* The exponent above the highest bit of x.
Top(x) == x.e + BBitLen(x.m)

\* |x| < |y| for finite x and y.
MagnitudeLess(x, y) ==
  IF x.m = <<>> \/ y.m = <<>> THEN y.m # <<>>
  ELSE IF Top(x) # Top(y) THEN Top(x) < Top(y)
  ELSE IF x.e < y.e THEN BCmp(x.m, BShl(y.m, y.e - x.e)) < 0
  ELSE BCmp(BShl(x.m, x.e - y.e), y.m) < 0

\* x + y of two floats.
float_sum(x, y) ==
  IF x.class = "nan" \/ y.class = "nan" THEN NaN
  ELSE IF x.class = "inf"
    THEN IF y.class = "inf" /\ x.neg # y.neg THEN NaN ELSE Inf(x.neg)
  ELSE IF y.class = "inf" THEN Inf(y.neg)
  ELSE IF x.m = <<>> /\ y.m = <<>> THEN Float(x.neg /\ y.neg, <<>>, 0)
  ELSE IF y.m = <<>> \/ (x.m # <<>> /\ Top(x) - Top(y) > 64) THEN Float(x.neg, x.m, x.e)
  ELSE IF x.m = <<>> \/ Top(y) - Top(x) > 64 THEN Float(y.neg, y.m, y.e)
  ELSE LET e == IF x.e < y.e THEN x.e ELSE y.e
           ax == BShl(x.m, x.e - e)
           ay == BShl(y.m, y.e - e)
       IN  IF x.neg = y.neg THEN call_RoundFloat(x.neg, BAdd(ax, ay), e, FALSE)
           ELSE IF ax = ay THEN Float(FALSE, <<>>, 0)
           ELSE IF BCmp(ax, ay) > 0 THEN call_RoundFloat(x.neg, BSub(ax, ay), e, FALSE)
           ELSE call_RoundFloat(y.neg, BSub(ay, ax), e, FALSE)

\* a + b and a - b with at least one float operand.
float_add(a, b) ==
  IF TooLarge(a) \/ TooLarge(b) THEN Raised("OverflowError")
  ELSE call_float_sum(as_float(a), as_float(b))

float_sub(a, b) ==
  IF TooLarge(a) \/ TooLarge(b) THEN Raised("OverflowError")
  ELSE call_float_sum(as_float(a), [as_float(b) EXCEPT !.neg = ~@])

\* x < y of any two numbers: an int and a float are compared by their exact
\* values.
float_lt(x, y) ==
  IF x.class = "nan" \/ y.class = "nan" THEN FALSE
  ELSE IF x.class = "inf" THEN x.neg /\ ~(y.class = "inf" /\ y.neg)
  ELSE IF y.class = "inf" THEN ~y.neg
  ELSE IF x.neg # y.neg THEN x.neg /\ ~(x.m = <<>> /\ y.m = <<>>)
  ELSE IF x.neg THEN MagnitudeLess(y, x)
  ELSE MagnitudeLess(x, y)

\* x <= y
float_le(x, y) == x.class # "nan" /\ y.class # "nan" /\ ~call_float_lt(y, x)

\* x == y
float_eq(x, y) == float_le(x, y) /\ float_le(y, x)

\* min(x, y) and max(x, y) of two arguments: the first one unless the second
\* is smaller, or larger.
py_min(x, y) == IF call_float_lt(y, x) THEN y ELSE x

py_max(x, y) == IF call_float_lt(x, y) THEN y ELSE x

\* round(x, 2): the double is rounded exactly to the nearest hundredth, ties
\* to the even one, and the hundredths are divided by 100; an int is
\* returned as it is.
Round2(x) ==
  IF x.kind = "int" \/ x.class # "finite" \/ x.m = <<>> THEN x
  ELSE IF x.e >= 0 THEN x
  ELSE LET n == BMulSmall(x.m, 100)
           q == BShr(n, -x.e)
           half == BBit(n, -x.e - 1) = 1
           below == ~BLowZero(n, -x.e - 1)
           k == IF half /\ (below \/ BBit(q, 0) = 1) THEN BAdd(q, <<1>>) ELSE q
       IN  call_float_truediv(Float(x.neg, k, 0), float(100))

\* The float literal n / 10^d of the source, for n < 2^31.
Literal(n, d) == call_float_truediv(float(n), float(10^d))

(***************************************************************************)
(* Strings.  ord gives the code point of a printable ASCII character and   *)
(* Text the str of a literal.                                              *)
(***************************************************************************)
\* The printable ASCII characters from the space to the underscore, and from
\* a to the tilde.
ASCII ==
  <<" !\"#$%&'()*+,-./0123456789:;<=>?@ABCDEFGHIJKLMNOPQRSTUVWXYZ[\\]^_",
    "abcdefghijklmnopqrstuvwxyz{|}~">>

ord ==
  LET Chars(k) == {SubSeq(ASCII[k], i, i) : i \in 1..Len(ASCII[k])}
      Index(k, c) == CHOOSE i \in 1..Len(ASCII[k]) : SubSeq(ASCII[k], i, i) = c
  IN  [c \in Chars(1) \cup Chars(2) |->
         IF c \in Chars(1) THEN 31 + Index(1, c) ELSE 96 + Index(2, c)]

Text(s) == [i \in 1..Len(s) |-> ord[SubSeq(s, i, i)]]

\* The character at position i of s, or the terminating NUL.
At(s, i) == IF i >= 1 /\ i <= Len(s) THEN s[i] ELSE 0

InRuns(c, runs) == \E r \in runs : r[1] <= c /\ c <= r[2]

(***************************************************************************)
(* The Unicode character database of the interpreter, as runs of code      *)
(* points <<first, last>>: the characters str.isspace() accepts, the zeros *)
(* of the decimal digits, the cased and the case-ignorable characters, and *)
(* the lowercase mapping <<first, last, step, delta>>.                     *)
(***************************************************************************)
LOWERCASE ==
  {<<65, 90, 1, 32>>, <<192, 214, 1, 32>>, <<216, 222, 1, 32>>, <<256, 302, 2, 1>>, <<306, 310, 2, 1>>,
   <<313, 327, 2, 1>>, <<330, 374, 2, 1>>, <<376, 376, 1, -121>>, <<377, 381, 2, 1>>, <<385, 385, 1, 210>>,
   <<386, 388, 2, 1>>, <<390, 390, 1, 206>>, <<391, 391, 1, 1>>, <<393, 394, 1, 205>>, <<395, 395, 1, 1>>,
   <<398, 398, 1, 79>>, <<399, 399, 1, 202>>, <<400, 400, 1, 203>>, <<401, 401, 1, 1>>, <<403, 403, 1, 205>>,
   <<404, 404, 1, 207>>, <<406, 406, 1, 211>>, <<407, 407, 1, 209>>, <<408, 408, 1, 1>>, <<412, 412, 1, 211>>,
   <<413, 413, 1, 213>>, <<415, 415, 1, 214>>, <<416, 420, 2, 1>>, <<422, 422, 1, 218>>, <<423, 423, 1, 1>>,
   <<425, 425, 1, 218>>, <<428, 428, 1, 1>>, <<430, 430, 1, 218>>, <<431, 431, 1, 1>>, <<433, 434, 1, 217>>,
   <<435, 437, 2, 1>>, <<439, 439, 1, 219>>, <<440, 440, 1, 1>>, <<444, 444, 1, 1>>, <<452, 452, 1, 2>>,
   <<453, 453, 1, 1>>, <<455, 455, 1, 2>>, <<456, 456, 1, 1>>, <<458, 458, 1, 2>>, <<459, 475, 2, 1>>,
   <<478, 494, 2, 1>>, <<497, 497, 1, 2>>, <<498, 500, 2, 1>>, <<502, 502, 1, -97>>, <<503, 503, 1, -56>>,
   <<504, 542, 2, 1>>, <<544, 544, 1, -130>>, <<546, 562, 2, 1>>, <<570, 570, 1, 10795>>, <<571, 571, 1, 1>>,
   <<573, 573, 1, -163>>, <<574, 574, 1, 10792>>, <<577, 577, 1, 1>>, <<579, 579, 1, -195>>, <<580, 580, 1, 69>>,
   <<581, 581, 1, 71>>, <<582, 590, 2, 1>>, <<880, 882, 2, 1>>, <<886, 886, 1, 1>>, <<895, 895, 1, 116>>,
   <<902, 902, 1, 38>>, <<904, 906, 1, 37>>, <<908, 908, 1, 64>>, <<910, 911, 1, 63>>, <<913, 929, 1, 32>>,
   <<932, 939, 1, 32>>, <<975, 975, 1, 8>>, <<984, 1006, 2, 1>>, <<1012, 1012, 1, -60>>, <<1015, 1015, 1, 1>>,
   <<1017, 1017, 1, -7>>, <<1018, 1018, 1, 1>>, <<1021, 1023, 1, -130>>, <<1024, 1039, 1, 80>>, <<1040, 1071, 1, 32>>,
   <<1120, 1152, 2, 1>>, <<1162, 1214, 2, 1>>, <<1216, 1216, 1, 15>>, <<1217, 1229, 2, 1>>, <<1232, 1326, 2, 1>>,
   <<1329, 1366, 1, 48>>, <<4256, 4293, 1, 7264>>, <<4295, 4295, 1, 7264>>, <<4301, 4301, 1, 7264>>, <<5024, 5103, 1, 38864>>,
   <<5104, 5109, 1, 8>>, <<7312, 7354, 1, -3008>>, <<7357, 7359, 1, -3008>>, <<7680, 7828, 2, 1>>, <<7838, 7838, 1, -7615>>,
   <<7840, 7934, 2, 1>>, <<7944, 7951, 1, -8>>, <<7960, 7965, 1, -8>>, <<7976, 7983, 1, -8>>, <<7992, 7999, 1, -8>>,
   <<8008, 8013, 1, -8>>, <<8025, 8031, 2, -8>>, <<8040, 8047, 1, -8>>, <<8072, 8079, 1, -8>>, <<8088, 8095, 1, -8>>,
   <<8104, 8111, 1, -8>>, <<8120, 8121, 1, -8>>, <<8122, 8123, 1, -74>>, <<8124, 8124, 1, -9>>, <<8136, 8139, 1, -86>>,
   <<8140, 8140, 1, -9>>, <<8152, 8153, 1, -8>>, <<8154, 8155, 1, -100>>, <<8168, 8169, 1, -8>>, <<8170, 8171, 1, -112>>,
   <<8172, 8172, 1, -7>>, <<8184, 8185, 1, -128>>, <<8186, 8187, 1, -126>>, <<8188, 8188, 1, -9>>, <<8486, 8486, 1, -7517>>,
   <<8490, 8490, 1, -8383>>, <<8491, 8491, 1, -8262>>, <<8498, 8498, 1, 28>>, <<8544, 8559, 1, 16>>, <<8579, 8579, 1, 1>>,
   <<9398, 9423, 1, 26>>, <<11264, 11311, 1, 48>>, <<11360, 11360, 1, 1>>, <<11362, 11362, 1, -10743>>, <<11363, 11363, 1, -3814>>,
   <<11364, 11364, 1, -10727>>, <<11367, 11371, 2, 1>>, <<11373, 11373, 1, -10780>>, <<11374, 11374, 1, -10749>>, <<11375, 11375, 1, -10783>>,
   <<11376, 11376, 1, -10782>>, <<11378, 11378, 1, 1>>, <<11381, 11381, 1, 1>>, <<11390, 11391, 1, -10815>>, <<11392, 11490, 2, 1>>,
   <<11499, 11501, 2, 1>>, <<11506, 11506, 1, 1>>, <<42560, 42604, 2, 1>>, <<42624, 42650, 2, 1>>, <<42786, 42798, 2, 1>>,
   <<42802, 42862, 2, 1>>, <<42873, 42875, 2, 1>>, <<42877, 42877, 1, -35332>>, <<42878, 42886, 2, 1>>, <<42891, 42891, 1, 1>>,
   <<42893, 42893, 1, -42280>>, <<42896, 42898, 2, 1>>, <<42902, 42920, 2, 1>>, <<42922, 42922, 1, -42308>>, <<42923, 42923, 1, -42319>>,
   <<42924, 42924, 1, -42315>>, <<42925, 42925, 1, -42305>>, <<42926, 42926, 1, -42308>>, <<42928, 42928, 1, -42258>>, <<42929, 42929, 1, -42282>>,
   <<42930, 42930, 1, -42261>>, <<42931, 42931, 1, 928>>, <<42932, 42946, 2, 1>>, <<42948, 42948, 1, -48>>, <<42949, 42949, 1, -42307>>,
   <<42950, 42950, 1, -35384>>, <<42951, 42953, 2, 1>>, <<42960, 42960, 1, 1>>, <<42966, 42968, 2, 1>>, <<42997, 42997, 1, 1>>,
   <<65313, 65338, 1, 32>>, <<66560, 66599, 1, 40>>, <<66736, 66771, 1, 40>>, <<66928, 66938, 1, 39>>, <<66940, 66954, 1, 39>>,
   <<66956, 66962, 1, 39>>, <<66964, 66965, 1, 39>>, <<68736, 68786, 1, 64>>, <<71840, 71871, 1, 32>>, <<93760, 93791, 1, 32>>,
   <<125184, 125217, 1, 34>>}

CASED ==
  {<<65, 90>>, <<97, 122>>, <<170, 170>>, <<181, 181>>, <<186, 186>>, <<192, 214>>, <<216, 246>>,
   <<248, 442>>, <<444, 447>>, <<452, 659>>, <<661, 687>>, <<880, 883>>, <<886, 887>>, <<891, 893>>,
   <<895, 895>>, <<902, 902>>, <<904, 906>>, <<908, 908>>, <<910, 929>>, <<931, 1013>>, <<1015, 1153>>,
   <<1162, 1327>>, <<1329, 1366>>, <<1376, 1416>>, <<4256, 4293>>, <<4295, 4295>>, <<4301, 4301>>, <<4304, 4346>>,
   <<4349, 4351>>, <<5024, 5109>>, <<5112, 5117>>, <<7296, 7304>>, <<7312, 7354>>, <<7357, 7359>>, <<7424, 7467>>,
   <<7531, 7543>>, <<7545, 7578>>, <<7680, 7957>>, <<7960, 7965>>, <<7968, 8005>>, <<8008, 8013>>, <<8016, 8023>>,
   <<8025, 8025>>, <<8027, 8027>>, <<8029, 8029>>, <<8031, 8061>>, <<8064, 8116>>, <<8118, 8124>>, <<8126, 8126>>,
   <<8130, 8132>>, <<8134, 8140>>, <<8144, 8147>>, <<8150, 8155>>, <<8160, 8172>>, <<8178, 8180>>, <<8182, 8188>>,
   <<8450, 8450>>, <<8455, 8455>>, <<8458, 8467>>, <<8469, 8469>>, <<8473, 8477>>, <<8484, 8484>>, <<8486, 8486>>,
   <<8488, 8488>>, <<8490, 8493>>, <<8495, 8500>>, <<8505, 8505>>, <<8508, 8511>>, <<8517, 8521>>, <<8526, 8526>>,
   <<8544, 8575>>, <<8579, 8580>>, <<9398, 9449>>, <<11264, 11387>>, <<11390, 11492>>, <<11499, 11502>>, <<11506, 11507>>,
   <<11520, 11557>>, <<11559, 11559>>, <<11565, 11565>>, <<42560, 42605>>, <<42624, 42651>>, <<42786, 42863>>, <<42865, 42887>>,
   <<42891, 42894>>, <<42896, 42954>>, <<42960, 42961>>, <<42963, 42963>>, <<42965, 42969>>, <<42997, 42998>>, <<43002, 43002>>,
   <<43824, 43866>>, <<43872, 43880>>, <<43888, 43967>>, <<64256, 64262>>, <<64275, 64279>>, <<65313, 65338>>, <<65345, 65370>>,
   <<66560, 66639>>, <<66736, 66771>>, <<66776, 66811>>, <<66928, 66938>>, <<66940, 66954>>, <<66956, 66962>>, <<66964, 66965>>,
   <<66967, 66977>>, <<66979, 66993>>, <<66995, 67001>>, <<67003, 67004>>, <<68736, 68786>>, <<68800, 68850>>, <<71840, 71903>>,
   <<93760, 93823>>, <<119808, 119892>>, <<119894, 119964>>, <<119966, 119967>>, <<119970, 119970>>, <<119973, 119974>>, <<119977, 119980>>,
   <<119982, 119993>>, <<119995, 119995>>, <<119997, 120003>>, <<120005, 120069>>, <<120071, 120074>>, <<120077, 120084>>, <<120086, 120092>>,
   <<120094, 120121>>, <<120123, 120126>>, <<120128, 120132>>, <<120134, 120134>>, <<120138, 120144>>, <<120146, 120485>>, <<120488, 120512>>,
   <<120514, 120538>>, <<120540, 120570>>, <<120572, 120596>>, <<120598, 120628>>, <<120630, 120654>>, <<120656, 120686>>, <<120688, 120712>>,
   <<120714, 120744>>, <<120746, 120770>>, <<120772, 120779>>, <<122624, 122633>>, <<122635, 122654>>, <<125184, 125251>>, <<127280, 127305>>,
   <<127312, 127337>>, <<127344, 127369>>}

CASE_IGNORABLE ==
  {<<39, 39>>, <<46, 46>>, <<58, 58>>, <<94, 94>>, <<96, 96>>, <<168, 168>>, <<173, 173>>,
   <<175, 175>>, <<180, 180>>, <<183, 184>>, <<688, 879>>, <<884, 885>>, <<890, 890>>, <<900, 901>>,
   <<903, 903>>, <<1155, 1161>>, <<1369, 1369>>, <<1375, 1375>>, <<1425, 1469>>, <<1471, 1471>>, <<1473, 1474>>,
   <<1476, 1477>>, <<1479, 1479>>, <<1524, 1524>>, <<1536, 1541>>, <<1552, 1562>>, <<1564, 1564>>, <<1600, 1600>>,
   <<1611, 1631>>, <<1648, 1648>>, <<1750, 1757>>, <<1759, 1768>>, <<1770, 1773>>, <<1807, 1807>>, <<1809, 1809>>,
   <<1840, 1866>>, <<1958, 1968>>, <<2027, 2037>>, <<2042, 2042>>, <<2045, 2045>>, <<2070, 2093>>, <<2137, 2139>>,
   <<2184, 2184>>, <<2192, 2193>>, <<2200, 2207>>, <<2249, 2306>>, <<2362, 2362>>, <<2364, 2364>>, <<2369, 2376>>,
   <<2381, 2381>>, <<2385, 2391>>, <<2402, 2403>>, <<2417, 2417>>, <<2433, 2433>>, <<2492, 2492>>, <<2497, 2500>>,
   <<2509, 2509>>, <<2530, 2531>>, <<2558, 2558>>, <<2561, 2562>>, <<2620, 2620>>, <<2625, 2626>>, <<2631, 2632>>,
   <<2635, 2637>>, <<2641, 2641>>, <<2672, 2673>>, <<2677, 2677>>, <<2689, 2690>>, <<2748, 2748>>, <<2753, 2757>>,
   <<2759, 2760>>, <<2765, 2765>>, <<2786, 2787>>, <<2810, 2815>>, <<2817, 2817>>, <<2876, 2876>>, <<2879, 2879>>,
   <<2881, 2884>>, <<2893, 2893>>, <<2901, 2902>>, <<2914, 2915>>, <<2946, 2946>>, <<3008, 3008>>, <<3021, 3021>>,
   <<3072, 3072>>, <<3076, 3076>>, <<3132, 3132>>, <<3134, 3136>>, <<3142, 3144>>, <<3146, 3149>>, <<3157, 3158>>,
   <<3170, 3171>>, <<3201, 3201>>, <<3260, 3260>>, <<3263, 3263>>, <<3270, 3270>>, <<3276, 3277>>, <<3298, 3299>>,
   <<3328, 3329>>, <<3387, 3388>>, <<3393, 3396>>, <<3405, 3405>>, <<3426, 3427>>, <<3457, 3457>>, <<3530, 3530>>,
   <<3538, 3540>>, <<3542, 3542>>, <<3633, 3633>>, <<3636, 3642>>, <<3654, 3662>>, <<3761, 3761>>, <<3764, 3772>>,
   <<3782, 3782>>, <<3784, 3789>>, <<3864, 3865>>, <<3893, 3893>>, <<3895, 3895>>, <<3897, 3897>>, <<3953, 3966>>,
   <<3968, 3972>>, <<3974, 3975>>, <<3981, 3991>>, <<3993, 4028>>, <<4038, 4038>>, <<4141, 4144>>, <<4146, 4151>>,
   <<4153, 4154>>, <<4157, 4158>>, <<4184, 4185>>, <<4190, 4192>>, <<4209, 4212>>, <<4226, 4226>>, <<4229, 4230>>,
   <<4237, 4237>>, <<4253, 4253>>, <<4348, 4348>>, <<4957, 4959>>, <<5906, 5908>>, <<5938, 5939>>, <<5970, 5971>>,
   <<6002, 6003>>, <<6068, 6069>>, <<6071, 6077>>, <<6086, 6086>>, <<6089, 6099>>, <<6103, 6103>>, <<6109, 6109>>,
   <<6155, 6159>>, <<6211, 6211>>, <<6277, 6278>>, <<6313, 6313>>, <<6432, 6434>>, <<6439, 6440>>, <<6450, 6450>>,
   <<6457, 6459>>, <<6679, 6680>>, <<6683, 6683>>, <<6742, 6742>>, <<6744, 6750>>, <<6752, 6752>>, <<6754, 6754>>,
   <<6757, 6764>>, <<6771, 6780>>, <<6783, 6783>>, <<6823, 6823>>, <<6832, 6862>>, <<6912, 6915>>, <<6964, 6964>>,
   <<6966, 6970>>, <<6972, 6972>>, <<6978, 6978>>, <<7019, 7027>>, <<7040, 7041>>, <<7074, 7077>>, <<7080, 7081>>,
   <<7083, 7085>>, <<7142, 7142>>, <<7144, 7145>>, <<7149, 7149>>, <<7151, 7153>>, <<7212, 7219>>, <<7222, 7223>>,
   <<7288, 7293>>, <<7376, 7378>>, <<7380, 7392>>, <<7394, 7400>>, <<7405, 7405>>, <<7412, 7412>>, <<7416, 7417>>,
   <<7468, 7530>>, <<7544, 7544>>, <<7579, 7679>>, <<8125, 8125>>, <<8127, 8129>>, <<8141, 8143>>, <<8157, 8159>>,
   <<8173, 8175>>, <<8189, 8190>>, <<8203, 8207>>, <<8216, 8217>>, <<8228, 8228>>, <<8231, 8231>>, <<8234, 8238>>,
   <<8288, 8292>>, <<8294, 8303>>, <<8305, 8305>>, <<8319, 8319>>, <<8336, 8348>>, <<8400, 8432>>, <<11388, 11389>>,
   <<11503, 11505>>, <<11631, 11631>>, <<11647, 11647>>, <<11744, 11775>>, <<11823, 11823>>, <<12293, 12293>>, <<12330, 12333>>,
   <<12337, 12341>>, <<12347, 12347>>, <<12441, 12446>>, <<12540, 12542>>, <<40981, 40981>>, <<42232, 42237>>, <<42508, 42508>>,
   <<42607, 42610>>, <<42612, 42621>>, <<42623, 42623>>, <<42652, 42655>>, <<42736, 42737>>, <<42752, 42785>>, <<42864, 42864>>,
   <<42888, 42890>>, <<42994, 42996>>, <<43000, 43001>>, <<43010, 43010>>, <<43014, 43014>>, <<43019, 43019>>, <<43045, 43046>>,
   <<43052, 43052>>, <<43204, 43205>>, <<43232, 43249>>, <<43263, 43263>>, <<43302, 43309>>, <<43335, 43345>>, <<43392, 43394>>,
   <<43443, 43443>>, <<43446, 43449>>, <<43452, 43453>>, <<43471, 43471>>, <<43493, 43494>>, <<43561, 43566>>, <<43569, 43570>>,
   <<43573, 43574>>, <<43587, 43587>>, <<43596, 43596>>, <<43632, 43632>>, <<43644, 43644>>, <<43696, 43696>>, <<43698, 43700>>,
   <<43703, 43704>>, <<43710, 43711>>, <<43713, 43713>>, <<43741, 43741>>, <<43756, 43757>>, <<43763, 43764>>, <<43766, 43766>>,
   <<43867, 43871>>, <<43881, 43883>>, <<44005, 44005>>, <<44008, 44008>>, <<44013, 44013>>, <<64286, 64286>>, <<64434, 64450>>,
   <<65024, 65039>>, <<65043, 65043>>, <<65056, 65071>>, <<65106, 65106>>, <<65109, 65109>>, <<65279, 65279>>, <<65287, 65287>>,
   <<65294, 65294>>, <<65306, 65306>>, <<65342, 65342>>, <<65344, 65344>>, <<65392, 65392>>, <<65438, 65439>>, <<65507, 65507>>,
   <<65529, 65531>>, <<66045, 66045>>, <<66272, 66272>>, <<66422, 66426>>, <<67456, 67461>>, <<67463, 67504>>, <<67506, 67514>>,
   <<68097, 68099>>, <<68101, 68102>>, <<68108, 68111>>, <<68152, 68154>>, <<68159, 68159>>, <<68325, 68326>>, <<68900, 68903>>,
   <<69291, 69292>>, <<69446, 69456>>, <<69506, 69509>>, <<69633, 69633>>, <<69688, 69702>>, <<69744, 69744>>, <<69747, 69748>>,
   <<69759, 69761>>, <<69811, 69814>>, <<69817, 69818>>, <<69821, 69821>>, <<69826, 69826>>, <<69837, 69837>>, <<69888, 69890>>,
   <<69927, 69931>>, <<69933, 69940>>, <<70003, 70003>>, <<70016, 70017>>, <<70070, 70078>>, <<70089, 70092>>, <<70095, 70095>>,
   <<70191, 70193>>, <<70196, 70196>>, <<70198, 70199>>, <<70206, 70206>>, <<70367, 70367>>, <<70371, 70378>>, <<70400, 70401>>,
   <<70459, 70460>>, <<70464, 70464>>, <<70502, 70508>>, <<70512, 70516>>, <<70712, 70719>>, <<70722, 70724>>, <<70726, 70726>>,
   <<70750, 70750>>, <<70835, 70840>>, <<70842, 70842>>, <<70847, 70848>>, <<70850, 70851>>, <<71090, 71093>>, <<71100, 71101>>,
   <<71103, 71104>>, <<71132, 71133>>, <<71219, 71226>>, <<71229, 71229>>, <<71231, 71232>>, <<71339, 71339>>, <<71341, 71341>>,
   <<71344, 71349>>, <<71351, 71351>>, <<71453, 71455>>, <<71458, 71461>>, <<71463, 71467>>, <<71727, 71735>>, <<71737, 71738>>,
   <<71995, 71996>>, <<71998, 71998>>, <<72003, 72003>>, <<72148, 72151>>, <<72154, 72155>>, <<72160, 72160>>, <<72193, 72202>>,
   <<72243, 72248>>, <<72251, 72254>>, <<72263, 72263>>, <<72273, 72278>>, <<72281, 72283>>, <<72330, 72342>>, <<72344, 72345>>,
   <<72752, 72758>>, <<72760, 72765>>, <<72767, 72767>>, <<72850, 72871>>, <<72874, 72880>>, <<72882, 72883>>, <<72885, 72886>>,
   <<73009, 73014>>, <<73018, 73018>>, <<73020, 73021>>, <<73023, 73029>>, <<73031, 73031>>, <<73104, 73105>>, <<73109, 73109>>,
   <<73111, 73111>>, <<73459, 73460>>, <<78896, 78904>>, <<92912, 92916>>, <<92976, 92982>>, <<92992, 92995>>, <<94031, 94031>>,
   <<94095, 94111>>, <<94176, 94177>>, <<94179, 94180>>, <<110576, 110579>>, <<110581, 110587>>, <<110589, 110590>>, <<113821, 113822>>,
   <<113824, 113827>>, <<118528, 118573>>, <<118576, 118598>>, <<119143, 119145>>, <<119155, 119170>>, <<119173, 119179>>, <<119210, 119213>>,
   <<119362, 119364>>, <<121344, 121398>>, <<121403, 121452>>, <<121461, 121461>>, <<121476, 121476>>, <<121499, 121503>>, <<121505, 121519>>,
   <<122880, 122886>>, <<122888, 122904>>, <<122907, 122913>>, <<122915, 122916>>, <<122918, 122922>>, <<123184, 123197>>, <<123566, 123566>>,
   <<123628, 123631>>, <<125136, 125142>>, <<125252, 125259>>, <<127995, 127999>>, <<917505, 917505>>, <<917536, 917631>>, <<917760, 917999>>}

WHITESPACE ==
  {<<9, 13>>, <<28, 32>>, <<133, 133>>, <<160, 160>>, <<5760, 5760>>, <<8192, 8202>>, <<8232, 8233>>,
   <<8239, 8239>>, <<8287, 8287>>, <<12288, 12288>>}

DECIMAL_ZEROS ==
  {48, 1632, 1776, 1984, 2406, 2534, 2662, 2790, 2918, 3046,
   3174, 3302, 3430, 3558, 3664, 3792, 3872, 4160, 4240, 6112,
   6160, 6470, 6608, 6784, 6800, 6992, 7088, 7232, 7248, 42528,
   43216, 43264, 43472, 43504, 43600, 44016, 65296, 66720, 68912, 69734,
   69872, 69942, 70096, 70384, 70736, 70864, 71248, 71360, 71472, 71904,
   72016, 72784, 73040, 73120, 92768, 92864, 93008, 120782, 120792, 120802,
   120812, 120822, 123200, 123632, 125264, 130032}

(***************************************************************************)
(* str.lower().  U+0130 becomes two characters; U+03A3 becomes the final   *)
(* sigma when it follows a cased character and none follows it,            *)
(* case-ignorable characters skipped.                                      *)
(***************************************************************************)
IsCased(c) == InRuns(c, CASED)

IsCaseIgnorable(c) == InRuns(c, CASE_IGNORABLE)

final_sigma(s, i) ==
  LET before == {j \in 1..(i - 1) : ~IsCaseIgnorable(s[j])}
      after == {j \in (i + 1)..Len(s) : ~IsCaseIgnorable(s[j])}
  IN  /\ before # {}
      /\ IsCased(s[MaxOf(before)])
      /\ (after = {} \/ ~IsCased(s[MinOf(after)]))

LowerChar(c) ==
  LET runs == {r \in LOWERCASE : r[1] <= c /\ c <= r[2] /\ (c - r[1]) % r[3] = 0}
  IN  IF runs = {} THEN c ELSE c + (CHOOSE r \in runs : TRUE)[4]

RECURSIVE lower_from(_, _)
lower_from(s, i) ==
  IF i > Len(s) THEN <<>>
  ELSE (IF s[i] = 931 THEN <<IF final_sigma(s, i) THEN 962 ELSE 963>>
        ELSE IF s[i] = 304 THEN <<105, 775>>
        ELSE <<LowerChar(s[i])>>) \o lower_from(s, i + 1)

lower(s) == lower_from(s, 1)

\* sub in s
IsSubstring(sub, s) ==
  \E i \in 1..(Len(s) - Len(sub) + 1) : SubSeq(s, i, i + Len(sub) - 1) = sub

(***************************************************************************)
(* str.strip() and int().                                                  *)
(***************************************************************************)
IsSpace(c) == InRuns(c, WHITESPACE)

strip(s) ==
  LET kept == {i \in 1..Len(s) : ~IsSpace(s[i])}
  IN  IF kept = {} THEN <<>> ELSE SubSeq(s, MinOf(kept), MaxOf(kept))

\* The value of a decimal digit of any script, or -1.
decimal(c) ==
  LET zeros == {z \in DECIMAL_ZEROS : z <= c /\ c <= z + 9}
  IN  IF zeros = {} THEN -1 ELSE c - (CHOOSE z \in zeros : TRUE)

\* The value of a digit of a base up to 36, or 36.
DigitVal(c) ==
  IF c >= 48 /\ c <= 57 THEN c - 48
  ELSE IF c >= 97 /\ c <= 122 THEN c - 87
  ELSE IF c >= 65 /\ c <= 90 THEN c - 55
  ELSE 36

\* What int() parses: an ASCII str is taken as it is; in any other str a
\* white space becomes a space, a decimal digit its ASCII digit and any
\* other character above U+007E a question mark.
to_ascii(text) ==
  IF \A i \in 1..Len(text) : text[i] < 128 THEN text
  ELSE [i \in 1..Len(text) |->
          IF text[i] < 127 THEN text[i]
          ELSE IF IsSpace(text[i]) THEN 32
          ELSE IF decimal(text[i]) >= 0 THEN 48 + decimal(text[i])
          ELSE 63]

\* The value of the digits, most significant first, in a base of 16 or less:
\* twelve digits at a time, each twelve from three numbers of four digits.
int_value(digits, base) ==
  LET n == Len(digits)
      groups == (n + 11) \div 12
      d(i) == IF i + n > 12 * groups THEN digits[i + n - 12 * groups] ELSE 0
      four(k) == ((d(4 * k - 3) * base + d(4 * k - 2)) * base + d(4 * k - 1)) * base + d(4 * k)
      twelve(a, b, c) ==
        BAdd(BMulSmall(BAdd(BMulSmall(BFromInt(a), base^4), BFromInt(b)), base^4),
             BFromInt(c))
      RECURSIVE upto(_)
      upto(g) ==
        IF g = 0 THEN <<>>
        ELSE BAdd(BMul(BMulSmall(twelve(1, 0, 0), base^4), upto(g - 1)),
                  twelve(four(3 * g - 2), four(3 * g - 1), four(3 * g)))
  IN  upto(groups)

\* The text t without the white space around it.
int_stripped(t) ==
  LET kept == {i \in 1..Len(t) : t[i] \notin {9, 10, 11, 12, 13, 32}}
  IN  IF kept = {} THEN <<>> ELSE SubSeq(t, MinOf(kept), MaxOf(kept))

\* The text begins with a sign.
int_signed(core) == core # <<>> /\ core[1] \in {43, 45}

\* The text after a 0x or 0X prefix of base 16 and after one underscore
\* that follows the prefix.
int_unprefixed(rest, base) ==
  IF base = 16 /\ Len(rest) >= 2 /\ rest[1] = 48 /\ rest[2] \in {88, 120}
    THEN IF Len(rest) >= 3 /\ rest[3] = 95 THEN SubSeq(rest, 4, Len(rest))
         ELSE SubSeq(rest, 3, Len(rest))
    ELSE rest

\* Digits of the base with single underscores between them.
int_valid(body, base) ==
  /\ body # <<>>
  /\ body[1] # 95
  /\ body[Len(body)] # 95
  /\ \A i \in 1..Len(body) :
       \/ DigitVal(body[i]) < base
       \/ body[i] = 95 /\ body[i + 1] # 95

\* The values of the digits of the text, the underscores left out.
int_digits(body) ==
  LET digits == SelectSeq(body, LAMBDA c : c # 95)
  IN  [i \in 1..Len(digits) |-> DigitVal(digits[i])]

\* The int of the digits with the sign, or ValueError.  In a base that is
\* no power of two the interpreter converts at most 4300 digits, leading
\* zeros counted (sys.get_int_max_str_digits(), which the program leaves at
\* its default), and raises ValueError for more.
int_of(neg, body, base) ==
  IF ~int_valid(body, base) THEN ValueError
  ELSE IF base = 10 /\ Len(int_digits(body)) > 4300 THEN ValueError
  ELSE BigInt(neg, call_int_value(int_digits(body), base))

\* The int of a text without white space around it.
int_parsed(core, base) ==
  call_int_of(int_signed(core) /\ core[1] = 45,
         int_unprefixed(IF int_signed(core) THEN Tail(core) ELSE core, base),
         base)

\* int(text, base) for base 10 or 16: white space around, a sign, for base 16
\* a 0x prefix, and single underscores between the digits and after the
\* prefix are accepted; anything else raises ValueError.
py_int(text, base) == call_int_parsed(call_int_stripped(call_to_ascii(text)), base)

\* The decimal text of a natural number.
RECURSIVE IntText(_)
IntText(n) == IF n < 10 THEN <<48 + n>> ELSE IntText(n \div 10) \o <<48 + (n % 10)>>

(***************************************************************************)
(* ROLE_WEIGHTS, in the dict's insertion order.                            *)
(***************************************************************************)
ROLE_WEIGHTS ==
  <<[role |-> Text("ceo"),                      w |-> call_Literal(15, 1)],
    [role |-> Text("chief executive officer"),  w |-> call_Literal(15, 1)],
    [role |-> Text("cfo"),                      w |-> call_Literal(14, 1)],
    [role |-> Text("chief financial officer"),  w |-> call_Literal(14, 1)],
    [role |-> Text("coo"),                      w |-> call_Literal(13, 1)],
    [role |-> Text("chief operating officer"),  w |-> call_Literal(13, 1)],
    [role |-> Text("president"),                w |-> call_Literal(13, 1)],
    [role |-> Text("cto"),                      w |-> call_Literal(12, 1)],
    [role |-> Text("chief technology officer"), w |-> call_Literal(12, 1)],
    [role |-> Text("director"),                 w |-> call_Literal(10, 1)],
    [role |-> Text("officer"),                  w |-> call_Literal(9, 1)],
    [role |-> Text("insider"),                  w |-> call_Literal(8, 1)],
    [role |-> Text("10% owner"),                w |-> call_Literal(7, 1)]>>

(***************************************************************************)
(* The role weight of one record: the loop over ROLE_WEIGHTS.items()       *)
(* started from weight = 1.0.                                              *)
(***************************************************************************)
RECURSIVE WeightLoop(_, _, _)
WeightLoop(title_lower, weight, items) ==
  IF items = <<>> THEN weight
  ELSE WeightLoop(title_lower,
                  IF IsSubstring(items[1].role, title_lower)
                    THEN py_max(weight, items[1].w)
                    ELSE weight,
                  Tail(items))

\* Faulty variant: the loop started from 0, so that a matching key below 1.0
\* is applied; 1.0 only when no key matches.
RoleWeightFromZero(title) ==
  IF IsZero(WeightLoop(lower(title), float(0), ROLE_WEIGHTS))
    THEN float(1)
    ELSE WeightLoop(lower(title), float(0), ROLE_WEIGHTS)

RoleWeight(title) == WeightLoop(call_lower(title), float(1), ROLE_WEIGHTS)

(***************************************************************************)
(* datetime.fromisoformat of Python 3.11, and the difference of two        *)
(* datetimes.                                                              *)
(***************************************************************************)
\* The UTF-8 bytes of a str without surrogates.
RECURSIVE encode(_)
encode(s) ==
  IF s = <<>> THEN <<>>
  ELSE LET c == s[Len(s)]
           b == IF c < 128 THEN <<c>>
                ELSE IF c < 2048 THEN <<192 + (c \div 64), 128 + (c % 64)>>
                ELSE IF c < 65536 THEN <<224 + (c \div 4096), 128 + ((c \div 64) % 64), 128 + (c % 64)>>
                ELSE <<240 + (c \div 262144), 128 + ((c \div 4096) % 64), 128 + ((c \div 64) % 64), 128 + (c % 64)>>
       IN  encode(SubSeq(s, 1, Len(s) - 1)) \o b

\* The parser of the interpreter works on the bytes of the str, position 1
\* being its first byte and 0 the byte read past its end.
is_digit(c) == c >= 48 /\ c <= 57

RECURSIVE digits_value(_, _, _)
digits_value(s, p, n) == IF n = 0 THEN 0 ELSE digits_value(s, p, n - 1) * 10 + (s[p + n - 1] - 48)

\* n decimal digits at position p.
parse_digits(s, p, n) ==
  IF \A i \in p..(p + n - 1) : is_digit(At(s, i))
    THEN [ok |-> TRUE, value |-> digits_value(s, p, n)]
    ELSE [ok |-> FALSE, value |-> 0]

\* The proleptic Gregorian calendar.
is_leap(year) == year % 4 = 0 /\ (year % 100 # 0 \/ year % 400 = 0)

days_in_month(year, month) ==
  IF month = 2 /\ is_leap(year) THEN 29
  ELSE <<31, 28, 31, 30, 31, 30, 31, 31, 30, 31, 30, 31>>[month]

days_before_month(year, month) ==
  <<0, 31, 59, 90, 120, 151, 181, 212, 243, 273, 304, 334>>[month]
    + (IF month > 2 /\ is_leap(year) THEN 1 ELSE 0)

days_before_year(year) ==
  (year - 1) * 365 + (year - 1) \div 4 - (year - 1) \div 100 + (year - 1) \div 400

ymd_to_ord(year, month, day) == days_before_year(year) + days_before_month(year, month) + day

iso_week1_monday(year) ==
  LET first_day == ymd_to_ord(year, 1, 1)
      first_weekday == (first_day + 6) % 7
  IN  first_day - first_weekday + (IF first_weekday > 3 THEN 7 ELSE 0)

InvalidDate == [ok |-> FALSE, ordinal |-> 0]

\* The ordinal of the day iso_day of the week iso_week of an ISO year.
iso_to_ymd(iso_year, iso_week, iso_day) ==
  LET first_weekday == (ymd_to_ord(iso_year, 1, 1) + 6) % 7
      long_year == first_weekday = 3 \/ (first_weekday = 2 /\ is_leap(iso_year))
      ordinal == call_iso_week1_monday(iso_year) + (iso_week - 1) * 7 + iso_day - 1
  IN  IF iso_year < 1 \/ iso_year > 9999 THEN InvalidDate
      ELSE IF (iso_week <= 0 \/ iso_week >= 53) /\ ~(iso_week = 53 /\ long_year) THEN InvalidDate
      ELSE IF iso_day <= 0 \/ iso_day >= 8 THEN InvalidDate
      ELSE IF ordinal > ymd_to_ord(9999, 12, 31) THEN InvalidDate
      ELSE [ok |-> TRUE, ordinal |-> ordinal]

\* The number of bytes of the date part: YYYY-MM-DD, YYYYMMDD, YYYY-Www,
\* YYYY-Www-D, YYYYWww or YYYYWwwD.
find_isoformat_datetime_separator(s) ==
  LET len == Len(s)
      idx == CHOOSE i \in 7..(IF len > 7 THEN len ELSE 7) :
               /\ \A j \in 7..(i - 1) : is_digit(At(s, j + 1))
               /\ (i >= len \/ ~is_digit(At(s, i + 1)))
  IN  IF len = 7 THEN 7
      ELSE IF len > 7 /\ At(s, 5) = 45
        THEN IF At(s, 6) = 87
               THEN IF len > 8 /\ At(s, 9) = 45
                      THEN IF len = 9 THEN -1
                           ELSE IF len > 10 /\ is_digit(At(s, 11)) THEN 8 ELSE 10
                      ELSE 8
               ELSE 10
        ELSE IF At(s, 5) = 87
               THEN IF idx < 9 THEN idx ELSE IF idx % 2 = 0 THEN 7 ELSE 8
               ELSE 8

parse_isoformat_date(s, len) ==
  LET year == parse_digits(s, 1, 4)
      uses_separator == At(s, 5) = 45
      p == IF uses_separator THEN 6 ELSE 5
      iso_week == parse_digits(s, p + 1, 2)
      has_day == p + 2 < len
      q == IF has_day /\ uses_separator THEN p + 4 ELSE p + 3
      iso_day == parse_digits(s, q, 1)
      month == parse_digits(s, p, 2)
      r == IF uses_separator THEN p + 3 ELSE p + 2
      day == parse_digits(s, r, 2)
  IN  IF ~year.ok THEN InvalidDate
      ELSE IF At(s, p) = 87
        THEN IF ~iso_week.ok THEN InvalidDate
             ELSE IF has_day /\ uses_separator /\ At(s, p + 3) # 45 THEN InvalidDate
             ELSE IF has_day /\ ~iso_day.ok THEN InvalidDate
             ELSE call_iso_to_ymd(year.value, iso_week.value, IF has_day THEN iso_day.value ELSE 1)
      ELSE IF ~month.ok THEN InvalidDate
      ELSE IF uses_separator /\ At(s, p + 2) # 45 THEN InvalidDate
      ELSE IF ~day.ok THEN InvalidDate
      ELSE IF year.value < 1 \/ month.value < 1 \/ month.value > 12 THEN InvalidDate
      ELSE IF day.value < 1 \/ day.value > days_in_month(year.value, month.value) THEN InvalidDate
      ELSE [ok |-> TRUE, ordinal |-> ymd_to_ord(year.value, month.value, day.value)]

InvalidTime == [rv |-> -1, fields |-> <<>>, microsecond |-> 0]

\* The fraction of a second: up to six digits are read, further digits are
\* skipped, and rv is 1 when anything follows.
parse_fraction(s, p, p_end, fields) ==
  LET len_remains == p_end - p
      to_parse == IF len_remains >= 6 THEN 6 ELSE len_remains
      digits == parse_digits(s, p, to_parse)
      stop == CHOOSE i \in (p + to_parse)..(Len(s) + 1) :
                /\ ~is_digit(At(s, i))
                /\ \A j \in (p + to_parse)..(i - 1) : is_digit(At(s, j))
  IN  IF ~digits.ok THEN InvalidTime
      ELSE [rv |-> IF At(s, stop) # 0 THEN 1 ELSE 0, fields |-> fields,
            microsecond |-> digits.value * <<100000, 10000, 1000, 100, 10, 1>>[to_parse]]

\* hh[:mm[:ss]] or hhmmss from position q up to p_end, component i being
\* read.
RECURSIVE parse_components(_, _, _, _, _, _)
parse_components(s, p_end, i, q, has_separator, fields) ==
  LET digits == parse_digits(s, q, 2)
      c == At(s, q + 2)
      p == q + 3
      separated == IF i = 0 THEN c = 58 ELSE has_separator
      parsed == Append(fields, digits.value)
  IN  IF ~digits.ok THEN InvalidTime
      ELSE IF p >= p_end THEN [rv |-> IF c # 0 THEN 1 ELSE 0, fields |-> parsed, microsecond |-> 0]
      ELSE IF separated /\ c = 58
        THEN IF i = 2 THEN call_parse_fraction(s, p, p_end, parsed)
             ELSE parse_components(s, p_end, i + 1, p, separated, parsed)
      ELSE IF c = 46 \/ c = 44 THEN call_parse_fraction(s, p, p_end, parsed)
      ELSE IF ~separated
        THEN IF i = 2 THEN call_parse_fraction(s, p - 1, p_end, parsed)
             ELSE parse_components(s, p_end, i + 1, p - 1, separated, parsed)
      ELSE InvalidTime

parse_hh_mm_ss_ff(s, tstr, p_end) ==
  LET parsed == parse_components(s, p_end, 0, tstr, FALSE, <<>>)
  IN  IF parsed.rv < 0 THEN parsed
      ELSE [parsed EXCEPT !.fields = [i \in 1..3 |-> IF i <= Len(parsed.fields) THEN parsed.fields[i] ELSE 0]]

InvalidClock == [ok |-> FALSE, seconds |-> 0, microsecond |-> 0, aware |-> FALSE, offset |-> 0, offset_us |-> 0]

\* The time part from position p: the time up to the first Z, + or -, and
\* the UTC offset after it.
parse_isoformat_time(s, p) ==
  LET p_end == Len(s) + 1
      marks == {i \in p..(p_end - 1) : At(s, i) \in {90, 43, 45}}
      tzinfo_pos == IF marks # {} THEN CHOOSE i \in marks : \A j \in marks : i <= j
                    ELSE IF p < p_end THEN p_end ELSE p + 1
      time == call_parse_hh_mm_ss_ff(s, p, tzinfo_pos)
      valid == time.fields[1] < 24 /\ time.fields[2] < 60 /\ time.fields[3] < 60
      seconds == time.fields[1] * 3600 + time.fields[2] * 60 + time.fields[3]
      tzsign == IF At(s, tzinfo_pos) = 45 THEN -1 ELSE 1
      tz == call_parse_hh_mm_ss_ff(s, tzinfo_pos + 1, p_end)
      tzoffset == tz.fields[1] * 3600 + tz.fields[2] * 60 + tz.fields[3]
      utc == [ok |-> TRUE, seconds |-> seconds, microsecond |-> time.microsecond,
              aware |-> TRUE, offset |-> 0, offset_us |-> 0]
  IN  IF time.rv < 0 THEN InvalidClock
      ELSE IF tzinfo_pos = p_end
        THEN IF time.rv = 1 \/ ~valid THEN InvalidClock
             ELSE [utc EXCEPT !.aware = FALSE]
      ELSE IF At(s, tzinfo_pos) = 90
        THEN IF At(s, tzinfo_pos + 1) # 0 \/ ~valid THEN InvalidClock ELSE utc
      ELSE IF tz.rv # 0 \/ ~valid THEN InvalidClock
      ELSE IF tzoffset = 0 THEN utc
      ELSE IF tzoffset >= 86400 THEN InvalidClock
      ELSE [utc EXCEPT !.offset = tzsign * tzoffset, !.offset_us = tzsign * tz.microsecond]

\* datetime.fromisoformat: a datetime, with the ordinal of its date, the
\* second of the day and the UTC offset of an aware one, or ValueError.
fromisoformat(date_string) ==
  LET surrogate(c) == c >= 55296 /\ c <= 57343
      candidates == {i \in {8, 9, 11} : i <= Len(date_string) /\ surrogate(date_string[i])}
      clean == [i \in 1..Len(date_string) |->
                  IF i \in candidates /\ (\A j \in candidates : i <= j) THEN 84 ELSE date_string[i]]
      s == encode(clean)
      len == Len(s)
      separator_location == call_find_isoformat_datetime_separator(s)
      date == call_parse_isoformat_date(s, separator_location)
      lead == At(s, separator_location + 1)
      width == IF lead < 128 THEN 1 ELSE IF lead \div 16 = 14 THEN 3 ELSE IF lead \div 16 = 15 THEN 4 ELSE 2
      time == call_parse_isoformat_time(s, separator_location + width + 1)
      midnight == [kind |-> "datetime", days |-> date.ordinal, seconds |-> 0, microsecond |-> 0,
                   aware |-> FALSE, offset |-> 0, offset_us |-> 0]
  IN  IF \E i \in 1..Len(clean) : surrogate(clean[i]) THEN ValueError
      ELSE IF len < 7 \/ ~date.ok THEN ValueError
      ELSE IF len <= separator_location THEN midnight
      ELSE IF ~time.ok THEN ValueError
      ELSE [kind |-> "datetime", days |-> date.ordinal, seconds |-> time.seconds, microsecond |-> time.microsecond,
            aware |-> time.aware, offset |-> time.offset, offset_us |-> time.offset_us]

\* The instant of a datetime as <<days, seconds, microseconds>>: the wall
\* time of a naive one, the time in UTC of an aware one.
instant(d) ==
  LET us == d.microsecond - d.offset_us
      seconds == d.seconds - d.offset + (us \div 1000000)
  IN  <<d.days + (seconds \div 86400), seconds % 86400, us % 1000000>>

\* a < b for two instants.
earlier(a, b) ==
  \/ a[1] < b[1]
  \/ a[1] = b[1] /\ a[2] < b[2]
  \/ a[1] = b[1] /\ a[2] = b[2] /\ a[3] < b[3]

\* max(dates) and min(dates) raise TypeError when they compare a naive
\* datetime with an aware one.
comparable(dates) == \A i \in 1..Len(dates) : dates[i].aware = dates[1].aware

\* Faulty variant: the days from the first date of the list to the last.
date_range_first_to_last(dates) == instant(dates[Len(dates)])[1] - instant(dates[1])[1]

\* (max(dates) - min(dates)).days: the difference rounded down to whole
\* days.
date_range_days(dates) ==
  LET instants == {instant(dates[i]) : i \in 1..Len(dates)}
      latest == CHOOSE a \in instants : \A b \in instants : ~earlier(a, b)
      earliest == CHOOSE a \in instants : \A b \in instants : ~earlier(b, a)
  IN  latest[1] - earliest[1]
        - (IF earlier(<<0, latest[2], latest[3]>>, <<0, earliest[2], earliest[3]>>)
             THEN 1 ELSE 0)

(***************************************************************************)
(* The records, titles, names and dates of the model.  RoleWeight and      *)
(* datetime.fromisoformat are tabulated over them, so that a call looks    *)
(* the values up instead of computing them again for every record.         *)
(***************************************************************************)
Titles ==
  {Text("Chief Executive Officer"), Text("CFO"), Text("President"), Text("CTO"),
   Text("Director"), Text("Officer"), Text("Insider"), Text("10% Owner"),
   Text("Consultant")}

\* The further titles of the records of tests/test_analyzer.py, and the title
\* the parser gives a record of a filing without reportingOwnerTitle.
FixtureTitles ==
  {Text("Chief Financial Officer"), Text("COO"), Text("CEO"), Text("Unknown")}

TitleWeight == [t \in Titles \cup FixtureTitles |-> call_RoleWeight(t)]

\* The weight of any title: looked up when tabulated, computed otherwise.
role_weight_of(title) ==
  IF title \in DOMAIN TitleWeight THEN TitleWeight[title] ELSE call_RoleWeight(title)

\* 2025-02-14 is 30 days and 2025-02-15 is 31 days after 2025-01-15.
Dates == {Text("2025-01-15"), Text("2025-02-14"), Text("2025-02-15")}

FixtureDates == {Text("2025-01-16"), Text("2025-01-20")}

\* The texts of a transactionDate in an uploaded filing that are no calendar
\* date, or more than one.
OtherDates ==
  {Text("2025-02-30"), Text("2025/01/15"), Text("2025-01-15T23:30:00"),
   Text("2025-01-15T00:00:00+00:00")}

DateOf == [d \in Dates \cup FixtureDates \cup OtherDates |-> call_fromisoformat(d)]

\* datetime.fromisoformat of any text: looked up when tabulated, computed
\* otherwise.
date_of(text) == IF text \in DOMAIN DateOf THEN DateOf[text] ELSE call_fromisoformat(text)

\* The float literals of the source, by their hundredths: Hundredths[70] is
\* 0.7 and Hundredths[300] is 3.0.
Hundredths == [n \in {0, 50, 70, 80, 99, 100, 300} |-> call_Literal(n, 2)]

(***************************************************************************)
(* The results of a call: None, an InsiderSignal, or an exception that     *)
(* leaves the call.                                                        *)
(***************************************************************************)
None == [kind |-> "None"]

NotCalled == [kind |-> "NotCalled"]

\* A local variable that has not been assigned.
Unbound == [kind |-> "Unbound"]

(***************************************************************************)
(* detect_insider_selling_signal.  The frame of a call holds its           *)
(* parameters and locals, its position pc and, once it has returned or     *)
(* raised, the result ret.                                                 *)
(***************************************************************************)
NewFrame(txs, thr) ==
  [pc              |-> "call",
   transactions    |-> txs,
   threshold       |-> thr,
   i               |-> 0,
   total_sold      |-> PyInt(0),
   total_bought    |-> PyInt(0),
   weighted_sold   |-> PyInt(0),
   role_multiplier |-> float(1),
   ret             |-> NotCalled]

\* `if not transactions: return None'
Entered(f, txs) ==
  IF txs = <<>> THEN [f EXCEPT !.pc = "done", !.ret = None]
  ELSE [f EXCEPT !.pc = "loop", !.i = 1]

\* Faulty variant: only the sale of the current record kept in total_sold.
AccumulateLastSale(f, t, n) ==
  [f EXCEPT !.total_sold      = t.shares_sold,
            !.total_bought    = int_add(@, t.shares_bought),
            !.weighted_sold   = float_add(@, float_mul(t.shares_sold, role_weight_of(t.title))),
            !.role_multiplier = py_max(@, role_weight_of(t.title)),
            !.i               = @ + 1,
            !.pc              = IF f.i = n THEN "decide" ELSE "loop"]

\* The frame after one iteration of the loop, on record t of a list of n.
\* t.shares_sold * weight converts the int to a float and raises
\* OverflowError when it is beyond the doubles.
Accumulate(f, t, n) ==
  IF TooLarge(t.shares_sold)
    THEN [f EXCEPT !.total_sold   = call_int_add(@, t.shares_sold),
                   !.total_bought = call_int_add(@, t.shares_bought),
                   !.pc           = "done",
                   !.ret          = Raised("OverflowError")]
    ELSE [f EXCEPT !.total_sold      = call_int_add(@, t.shares_sold),
                   !.total_bought    = call_int_add(@, t.shares_bought),
                   !.weighted_sold   =
                      float_add(@, call_float_mul(t.shares_sold, call_role_weight_of(t.title))),
                   !.role_multiplier = py_max(@, call_role_weight_of(t.title)),
                   !.i               = @ + 1,
                   !.pc              = IF f.i = n THEN "decide" ELSE "loop"]

\* `for t in transactions', from the iteration the frame is at.
RECURSIVE Looped(_, _)
Looped(f, txs) ==
  IF f.pc # "loop" THEN f ELSE Looped(call_Accumulate(f, txs[f.i], Len(txs)), txs)

\* Faulty variant: the ownership of the first record instead of the last.
recent_ownership_first(txs) == txs[1].shares_owned_after

recent_ownership(txs) == txs[Len(txs)].shares_owned_after

\* The division of two ints raises ZeroDivisionError for a zero divisor and
\* OverflowError for a quotient beyond the doubles.
percentage_sold(total_sold, ownership) ==
  LET quotient == call_float_truediv(total_sold, call_int_add(ownership, total_sold))
  IN  IF call_float_lt(PyInt(0), ownership)
        THEN IF quotient.kind = "Raise" THEN quotient
             ELSE call_float_mul(quotient, PyInt(100))
        ELSE PyInt(0)

effective_percentage(pct, mult) == call_float_mul(pct, mult)

\* Faulty variant: a strict comparison with the threshold.
threshold_exceeded_strict(eff, thr) == float_lt(thr, eff)

threshold_exceeded(eff, thr) == float_le(thr, eff)

unique_insiders(txs) == Cardinality({txs[i].insider_name : i \in 1..Len(txs)})

\* [datetime.fromisoformat(t.transaction_date) for t in transactions]
dates(txs) == [i \in 1..Len(txs) |-> call_date_of(txs[i].transaction_date)]

\* Faulty variant: a window of fewer than 30 days.
is_clustered_exclusive(ds) ==
  IF Len(ds) > 1 THEN date_range_days(ds) < 30 ELSE FALSE

is_clustered(ds) ==
  IF Len(ds) > 1 THEN call_date_range_days(ds) <= 30 ELSE FALSE

(***************************************************************************)
(* _calculate_confidence.  The four factors and their weights; the         *)
(* division percentage_sold / threshold raises ZeroDivisionError when the  *)
(* threshold is zero and OverflowError when one of the two is a float and  *)
(* the other an int beyond the doubles.                                    *)
(***************************************************************************)
threshold_factor(pct, thr) ==
  LET quotient == call_float_truediv(pct, thr)
  IN  IF quotient.kind = "Raise" THEN quotient
      ELSE py_min(float_sub(quotient, Hundredths[100]), Hundredths[100])

insider_factor(num_insiders) ==
  py_min(call_float_truediv(PyInt(num_insiders), Hundredths[300]), Hundredths[100])

cluster_factor(clustered) == IF clustered THEN Hundredths[100] ELSE Hundredths[50]

role_factor(mult) ==
  py_min(call_float_truediv(float_sub(mult, Hundredths[70]), Hundredths[80]), Hundredths[100])

threshold_weight == call_Literal(40, 2)

insider_weight == call_Literal(30, 2)

cluster_weight == call_Literal(15, 2)

role_weight == call_Literal(15, 2)

\* Faulty variant: the sum capped at 1.0 instead of 0.99.
calculate_confidence_capped_at_one(pct, thr, num_insiders, clustered, mult) ==
  LET factor == threshold_factor(pct, thr)
  IN  IF factor.kind = "Raise" THEN factor
      ELSE py_min(float_add(float_add(float_add(
                    float_mul(factor, threshold_weight),
                    float_mul(insider_factor(num_insiders), insider_weight)),
                    float_mul(cluster_factor(clustered), cluster_weight)),
                    float_mul(role_factor(mult), role_weight)),
                  Hundredths[100])

calculate_confidence(pct, thr, num_insiders, clustered, mult) ==
  LET factor == call_threshold_factor(pct, thr)
  IN  IF factor.kind = "Raise" THEN factor
      ELSE py_min(float_add(float_add(float_add(
                    call_float_mul(factor, threshold_weight),
                    call_float_mul(call_insider_factor(num_insiders), insider_weight)),
                    call_float_mul(cluster_factor(clustered), cluster_weight)),
                    call_float_mul(call_role_factor(mult), role_weight)),
                  Hundredths[99])

(***************************************************************************)
(* The signal record, from the frame l with every local assigned.  The     *)
(* lists made of a set, insiders and roles, are sets.                      *)
(***************************************************************************)
details(l, txs) ==
  [total_shares_sold    |-> l.total_sold,
   total_shares_bought  |-> l.total_bought,
   percentage_sold      |-> call_Round2(l.percentage_sold),
   effective_percentage |-> call_Round2(l.effective_percentage),
   threshold            |-> l.threshold,
   num_transactions     |-> Len(txs),
   num_unique_insiders  |-> l.unique_insiders,
   insiders             |-> {txs[i].insider_name : i \in 1..Len(txs)},
   roles                |-> {txs[i].title : i \in 1..Len(txs)},
   role_multiplier      |-> call_Round2(l.role_multiplier),
   time_clustered       |-> IF Len(l.dates) > 1
                              THEN IF l.is_clustered THEN "True" ELSE "False"
                              ELSE "None",
   date_range_days      |-> IF Len(l.dates) > 1 THEN l.date_range_days ELSE 0]

\* Faulty variant: the role-weighted percentage reported as threshold_value.
reported_value_effective(l) == l.effective_percentage

reported_value(l) == l.percentage_sold

InsiderSignal(l, txs, now) ==
  [kind               |-> "Signal",
   signal_type        |-> "INSIDER_SELLING",
   company_symbol     |-> "",
   filing_type        |-> "Form 4",
   confidence         |-> l.confidence,
   threshold_exceeded |-> TRUE,
   threshold_value    |-> reported_value(l),
   details            |-> details(l, txs),
   filing_url         |-> "",
   detected_at        |-> now]

\* The body after the loop: the frame when the call returns or raises, with
\* the locals assigned until then.
finish(f, txs, now) ==
  LET pct == call_percentage_sold(f.total_sold, recent_ownership(txs))
      eff == effective_percentage(pct, f.role_multiplier)
      decided == [recent_ownership     |-> recent_ownership(txs),
                  percentage_sold      |-> pct,
                  effective_percentage |-> eff,
                  threshold_exceeded   |-> threshold_exceeded(eff, f.threshold)] @@ f
      counted == [unique_insiders |-> unique_insiders(txs)] @@ decided
      ds == dates(txs)
      dated == [dates |-> ds] @@ counted
      clustered == [date_range_days |-> IF Len(ds) > 1 THEN call_date_range_days(ds) ELSE Unbound,
                    is_clustered    |-> is_clustered(ds)] @@ dated
      confidence == call_calculate_confidence(pct, f.threshold, unique_insiders(txs),
                                         is_clustered(ds), f.role_multiplier)
      scored == [confidence |-> confidence] @@ clustered
      return(l, ret) == [l EXCEPT !.pc = "done", !.ret = ret]
  IN  IF f.pc = "done" THEN f
      ELSE IF pct.kind = "Raise" THEN return(f, pct)
      ELSE IF ~decided.threshold_exceeded THEN return(decided, None)
      ELSE IF \E i \in 1..Len(ds) : ds[i].kind = "Raise" THEN return(counted, ValueError)
      ELSE IF Len(ds) > 1 /\ ~comparable(ds) THEN return(dated, Raised("TypeError"))
      ELSE IF confidence.kind = "Raise" THEN return(clustered, confidence)
      ELSE return(scored, call_InsiderSignal(scored, txs, now))

\* Faulty variant: no early return for the empty list, so transactions[-1]
\* raises IndexError.
detect_without_empty_guard(txs, thr, now) ==
  IF txs = <<>>
    THEN [NewFrame(txs, thr) EXCEPT !.pc = "done", !.ret = Raised("IndexError")]
    ELSE finish(Looped(Entered(NewFrame(txs, thr), txs), txs), txs, now)

\* The frame of the call when it returns or raises; ret is what the caller
\* gets.
detect_insider_selling_signal(txs, thr, now) ==
  call_finish(Looped(Entered(NewFrame(txs, thr), txs), txs), txs, now)

(***************************************************************************)
(* The inputs of the model: record lists and thresholds.                   *)
(***************************************************************************)
Thresholds == {float(-20), float(0), float(40), float(75)}

Sale(name, title, date, sold, owned) ==
  [insider_name       |-> name,
   title              |-> title,
   transaction_date   |-> date,
   shares_sold        |-> sold,
   shares_bought      |-> PyInt(0),
   shares_owned_after |-> owned,
   transaction_type   |-> "Sale"]

Purchase(name, title, date, bought, owned) ==
  [insider_name       |-> name,
   title              |-> title,
   transaction_date   |-> date,
   shares_sold        |-> PyInt(0),
   shares_bought      |-> bought,
   shares_owned_after |-> owned,
   transaction_type   |-> "Purchase"]

\* The share counts: the small ones, and 2^54 shares, which is so many that
\* the quotient of the doubles is rounded.
Counts == {PyInt(n) : n \in 0..MaxShares}

ManyShares == BigInt(FALSE, BShl(<<1>>, 54))

\* Any one record: every title, sales and purchases.
Records ==
  {Sale(Text("John Doe"), t, Text("2025-01-15"), s, o) :
     t \in Titles, s \in Counts \cup {ManyShares}, o \in Counts}
  \cup
  {Purchase(Text("John Doe"), t, Text("2025-01-15"), b, o) :
     t \in {Text("CFO"), Text("Consultant")}, b \in Counts \ {PyInt(0)}, o \in Counts}

\* The records of the longer inputs: sales of two insiders, the last record
\* of a list 30 or 31 days after the others.
People ==
  {[name |-> Text("John Doe"), title |-> Text("Chief Executive Officer")],
   [name |-> Text("Jane Smith"), title |-> Text("Consultant")]}

Leading ==
  {Sale(p.name, p.title, Text("2025-01-15"), s, o) :
     p \in People, s \in {PyInt(1), PyInt(MaxShares)}, o \in {PyInt(0), PyInt(MaxShares)}}

Trailing ==
  {Sale(p.name, p.title, d, s, o) :
     p \in People, d \in {Text("2025-02-14"), Text("2025-02-15")}, s \in Counts,
     o \in {PyInt(0), PyInt(MaxShares)}}

Lists(n) ==
  {[i \in 1..n |-> IF i < n THEN l[i] ELSE t] : l \in [1..(n - 1) -> Leading], t \in Trailing}

Inputs == {<<>>} \cup {<<r>> : r \in Records} \cup UNION {Lists(n) : n \in 2..MaxTx}

(***************************************************************************)
(* The record lists of tests/test_analyzer.py, and the lists of up to      *)
(* MaxFixtures different records of the two-record list and of the list of *)
(* five chief executives.                                                  *)
(***************************************************************************)
sample_transactions ==
  <<Sale(Text("John Doe"), Text("Chief Executive Officer"), Text("2025-01-15"),
         PyInt(150000), PyInt(200000)),
    Sale(Text("Jane Smith"), Text("Chief Financial Officer"), Text("2025-01-16"),
         PyInt(50000), PyInt(100000))>>

below_threshold_transactions ==
  <<Sale(Text("John Doe"), Text("Director"), Text("2025-01-15"), PyInt(10000), PyInt(200000))>>

ceo_transaction ==
  <<Sale(Text("CEO"), Text("Chief Executive Officer"), Text("2025-01-15"),
         PyInt(100000), PyInt(150000))>>

director_transaction ==
  <<Sale(Text("Director"), Text("Director"), Text("2025-01-15"), PyInt(100000), PyInt(150000))>>

clustered_transactions ==
  <<Sale(Text("Person A"), Text("CFO"), Text("2025-01-15"), PyInt(50000), PyInt(100000)),
    Sale(Text("Person B"), Text("COO"), Text("2025-01-20"), PyInt(50000), PyInt(100000))>>

accuracy_transactions ==
  <<Sale(Text("Test"), Text("CEO"), Text("2025-01-15"), PyInt(42900), PyInt(57100))>>

extreme_transactions ==
  [i \in 1..5 |->
     Sale(Text("Exec ") \o IntText(i - 1), Text("Chief Executive Officer"),
          Text("2025-01-15"), PyInt(90000), PyInt(10000))]

InjectiveSeqs(S, n) ==
  {s \in [1..n -> S] : \A i, j \in 1..n : i # j => s[i] # s[j]}

FixtureInputs ==
  {sample_transactions, below_threshold_transactions, ceo_transaction,
   director_transaction, clustered_transactions, accuracy_transactions,
   extreme_transactions}
  \cup UNION {InjectiveSeqs(Range(sample_transactions) \cup Range(extreme_transactions), n) :
                n \in 1..MaxFixtures}

FixtureThresholds == {float(30), float(40)}

(***************************************************************************)
(* Lists one record longer than MaxTx, for the questions about the order   *)
(* of the records: the two insiders, one selling one share on one date and *)
(* the other MaxShares shares 31 days later, owning nothing or MaxShares   *)
(* shares afterwards.                                                      *)
(***************************************************************************)
OrderRecords ==
  {Sale(Text("John Doe"), Text("Chief Executive Officer"), Text("2025-01-15"),
        PyInt(1), o) : o \in {PyInt(0), PyInt(MaxShares)}}
  \cup
  {Sale(Text("Jane Smith"), Text("Consultant"), Text("2025-02-15"),
        PyInt(MaxShares), o) : o \in {PyInt(0), PyInt(MaxShares)}}

OrderInputs == [1..(MaxTx + 1) -> OrderRecords]

(***************************************************************************)
(* The state machine: a caller holds a record list and a threshold and     *)
(* calls the detector once; the clock is the wall clock read for           *)
(* detected_at.  The frame of the call is kept in frames.                  *)
(***************************************************************************)
\* The analyzer as constructed without an API key, by whether the connection
\* to the IPFS daemon succeeded.
SECFilingAnalyzer(ipfs) == [api_key |-> "None", client |-> "None", ipfs |-> ipfs]

\* Before the call: nothing in flight, nothing written and nothing uploaded.
Idle ==
  /\ result = NotCalled
  /\ pc = "call"
  /\ clock = 0
  /\ analyzer = SECFilingAnalyzer("None")
  /\ heap = <<>>
  /\ frames = <<>>
  /\ fs = <<>>
  /\ ipfs_added = <<>>

Init == transactions \in Inputs /\ threshold \in Thresholds /\ Idle

Detect ==
  /\ pc = "call"
  /\ frames' = <<call_detect_insider_selling_signal(transactions, threshold, clock)>>
  /\ result' = frames'[1].ret
  /\ pc' = "done"
  /\ clock' = clock + 1
  /\ UNCHANGED <<transactions, threshold, analyzer, heap, fs, ipfs_added>>

Next == Detect

Spec == Init /\ [][Next]_vars

\* The same call on the inputs made of the records of the tests.
InitFixtures == transactions \in FixtureInputs /\ threshold \in FixtureThresholds /\ Idle

SpecFixtures == InitFixtures /\ [][Next]_vars

\* The same call on the lists of MaxTx + 1 records.
InitOrder == transactions \in OrderInputs /\ threshold \in Thresholds /\ Idle

SpecOrder == InitOrder /\ [][Next]_vars

(***************************************************************************)
(* Properties of the detector.                                             *)
(***************************************************************************)
Called == pc = "done"

Fired == Called /\ result.kind = "Signal"

\* The locals of the call.
Locals == frames[1]

FloatSetMax(S) == CHOOSE w \in S : \A v \in S : float_le(v, w)

\* The largest role weight over the records of a list.
MaxRoleWeight(txs) == FloatSetMax({TitleWeight[txs[i].title] : i \in 1..Len(txs)})

RECURSIVE SumSoldFrom(_, _)
SumSoldFrom(txs, i) ==
  IF i > Len(txs) THEN PyInt(0) ELSE int_add(txs[i].shares_sold, SumSoldFrom(txs, i + 1))

\* total_sold / (recent_ownership + total_sold) * 100 from the raw records,
\* recent_ownership being shares_owned_after of the last record.
UnweightedPercentage(txs) ==
  LET ts == SumSoldFrom(txs, 1)
      ro == txs[Len(txs)].shares_owned_after
  IN  IF float_lt(PyInt(0), ro)
        THEN float_mul(float_truediv(ts, int_add(ro, ts)), PyInt(100))
        ELSE PyInt(0)

\* C1: for a non-empty record list and a threshold greater than zero, the
\* call returns a signal record if and only if percentage_sold times the
\* largest role weight over the records is at least the threshold, and
\* returns None otherwise.
C1_FiringRule ==
  (Called /\ transactions # <<>> /\ float_lt(Hundredths[0], threshold)) =>
    IF float_le(threshold,
                float_mul(UnweightedPercentage(transactions), MaxRoleWeight(transactions)))
      THEN result.kind = "Signal" /\ result.threshold_exceeded
      ELSE result = None

\* A call that fired with the effective percentage exactly at the threshold
\* while the unweighted percentage is below it.
C1_WitnessEquality ==
  /\ Fired
  /\ float_lt(Hundredths[0], threshold)
  /\ float_eq(Locals.effective_percentage, threshold)
  /\ float_lt(Locals.percentage_sold, threshold)

\* A third of the shares sold by a director (applied weight 1.2) at
\* threshold 40.0: the product of the fractions is 40, the double the code
\* computes is 39.99999999999999, below the threshold, and nothing fires.
C1_WitnessRounded ==
  /\ Called
  /\ result = None
  /\ threshold = float(40)
  /\ transactions # <<>>
  /\ transactions[Len(transactions)].title = Text("Director")
  /\ float_lt(float_sub(threshold, Locals.effective_percentage), Literal(1, 9))

\* C2: every signal record returned for a list with non-negative share
\* counts and any threshold has 0.0 < confidence <= 0.99.
C2_ConfidenceBound ==
  Fired => /\ float_lt(Hundredths[0], result.confidence)
           /\ float_le(result.confidence, Hundredths[99])

\* The same bound for the thresholds above zero.
C2_PositiveThreshold ==
  float_lt(Hundredths[0], threshold) => C2_ConfidenceBound

\* The confidence with the threshold-distance factor at its maximum 1.0.
ClampedConfidence(l) ==
  py_min(float_add(float_add(float_add(
           float_mul(Hundredths[100], threshold_weight),
           float_mul(insider_factor(l.unique_insiders), insider_weight)),
           float_mul(cluster_factor(l.is_clustered), cluster_weight)),
           float_mul(role_factor(l.role_multiplier), role_weight)),
         Hundredths[99])

\* C3: with a zero or negative threshold and a non-empty list the call does
\* not raise, and the confidence is the one computed with the
\* threshold-distance factor equal to 1.0.
C3_DegenerateThreshold ==
  (Called /\ transactions # <<>> /\ float_le(threshold, Hundredths[0])) =>
    /\ result.kind # "Raise"
    /\ result.kind = "Signal" => result.confidence = ClampedConfidence(Locals)

\* The weight the role-weight table gives a title: the largest weight over
\* the keys occurring in the lower-cased title, 1.0 when none occurs.
MatchingWeights(title) ==
  {ROLE_WEIGHTS[i].w :
     i \in {j \in 1..Len(ROLE_WEIGHTS) : IsSubstring(ROLE_WEIGHTS[j].role, lower(title))}}

TableWeight(title) ==
  IF MatchingWeights(title) = {} THEN Hundredths[100] ELSE FloatSetMax(MatchingWeights(title))

TableWeightOf == [t \in Titles |-> TableWeight(t)]

\* C4: the weight applied to a record is the largest table weight over the
\* keys occurring in its title (case-insensitive) and 1.0 only when no key
\* occurs; "10% Owner" gets 0.7, "Insider" 0.8, "Officer" 0.9 and
\* "Director" 1.0.
C4_RoleWeightTable ==
  Called =>
    \A i \in 1..Len(transactions) :
      LET t == transactions[i].title
      IN  /\ TitleWeight[t] = TableWeightOf[t]
          /\ t = Text("10% Owner") => TitleWeight[t] = Hundredths[70]
          /\ t = Text("Insider") => TitleWeight[t] = Hundredths[80]
          /\ t = Text("Officer") => TitleWeight[t] = Literal(9, 1)
          /\ t = Text("Director") => TitleWeight[t] = Hundredths[100]

InUnit(x) == float_le(Hundredths[0], x) /\ float_le(x, Hundredths[100])

\* C5: in every call of the confidence scorer made by a firing detection
\* each of the four factors lies in [0, 1]; the threshold-distance factor is
\* not negative when percentage_sold is below the threshold.
C5_FactorsNormalized ==
  Fired =>
    /\ InUnit(threshold_factor(Locals.percentage_sold, Locals.threshold))
    /\ InUnit(insider_factor(Locals.unique_insiders))
    /\ InUnit(cluster_factor(Locals.is_clustered))
    /\ InUnit(role_factor(Locals.role_multiplier))

\* The three factors other than the threshold distance lie in [0, 1].
C5_OtherFactors ==
  Fired =>
    /\ InUnit(insider_factor(Locals.unique_insiders))
    /\ InUnit(cluster_factor(Locals.is_clustered))
    /\ InUnit(role_factor(Locals.role_multiplier))

\* C6: threshold_value of every returned signal record is the unweighted
\* percentage_sold, not the effective percentage, also when the role
\* multiplier exceeds 1 and the signal fired only through role weighting.
C6_ThresholdValueUnweighted ==
  Fired =>
    /\ result.threshold_value = UnweightedPercentage(transactions)
    /\ (/\ float_lt(Hundredths[100], MaxRoleWeight(transactions))
        /\ float_lt(Hundredths[0], result.threshold_value))
         => ~float_eq(result.threshold_value, Locals.effective_percentage)

\* A signal fired only through role weighting: the unweighted percentage is
\* below the threshold and the role multiplier is above 1.
C6_Witness ==
  /\ Fired
  /\ float_lt(Hundredths[100], Locals.role_multiplier)
  /\ float_lt(Locals.percentage_sold, threshold)
  /\ float_le(threshold, Locals.effective_percentage)

\* C7: for every threshold the call with the empty list returns None and
\* does not raise.
C7_EmptyInput ==
  (Called /\ transactions = <<>>) => result = None

\* The empty list has been analysed with the zero threshold.
C7_Witness ==
  Called /\ transactions = <<>> /\ threshold = float(0) /\ result = None

\* C8: percentage_sold is total_sold / (recent_ownership + total_sold) * 100
\* with total_sold the sum of shares_sold over all records and
\* recent_ownership the shares_owned_after of the last record, is 0 when
\* recent_ownership is 0, and lies in [0, 100).
C8_PercentageSold ==
  (Called /\ transactions # <<>>) =>
    /\ Locals.percentage_sold = UnweightedPercentage(transactions)
    /\ IsZero(transactions[Len(transactions)].shares_owned_after)
         => IsZero(Locals.percentage_sold)
    /\ float_le(Hundredths[0], Locals.percentage_sold)
    /\ float_lt(Locals.percentage_sold, float(100))

\* The shares sold are at least 2^53 times the shares owned.
FarMore(sold, owned) == BCmp(sold.m, BShl(owned.m, 53)) >= 0

\* C8 (amended): the same formula, with the value in [0, 100]: the double
\* can be 100.0 when the shares sold are so many more than the shares owned
\* that the quotient is rounded to 1.0, and is below 100 when the shares
\* sold are fewer than 2^53 times the shares owned.
C8_PercentageSoldAmended ==
  (Called /\ transactions # <<>>) =>
    /\ Locals.percentage_sold = UnweightedPercentage(transactions)
    /\ IsZero(transactions[Len(transactions)].shares_owned_after)
         => IsZero(Locals.percentage_sold)
    /\ float_le(Hundredths[0], Locals.percentage_sold)
    /\ float_le(Locals.percentage_sold, float(100))
    /\ ~FarMore(SumSoldFrom(transactions, 1),
                transactions[Len(transactions)].shares_owned_after)
         => float_lt(Locals.percentage_sold, float(100))

\* Several records with different ownerships, the last one positive, and a
\* positive percentage.
C8_Witness ==
  /\ Called
  /\ Len(transactions) >= 2
  /\ ~IsZero(transactions[Len(transactions)].shares_owned_after)
  /\ transactions[1].shares_owned_after # transactions[Len(transactions)].shares_owned_after
  /\ ~IsZero(transactions[1].shares_sold)
  /\ ~IsZero(transactions[Len(transactions)].shares_sold)
  /\ float_lt(Hundredths[0], Locals.percentage_sold)

\* 2^54 shares sold and one share owned afterwards: percentage_sold is
\* 100.0.
C8_Rounded ==
  /\ Called
  /\ Len(transactions) = 1
  /\ transactions[1].shares_sold = ManyShares
  /\ transactions[1].shares_owned_after = PyInt(1)
  /\ Locals.percentage_sold = float(100)

\* The titles that are exactly a key of the role-weight table, with the
\* weight the table lists for them.
IsTableRole(t) == \E i \in 1..Len(ROLE_WEIGHTS) : ROLE_WEIGHTS[i].role = lower(t)

TableRoles == {t \in Titles : IsTableRole(t)}

ListedWeight(t) ==
  ROLE_WEIGHTS[CHOOSE i \in 1..Len(ROLE_WEIGHTS) : ROLE_WEIGHTS[i].role = lower(t)].w

ListedWeightOf == [t \in TableRoles |-> ListedWeight(t)]

\* C9: of two single-record inputs that differ only in the role title, the
\* one whose title has the higher weight in the table has a strictly greater
\* effective_percentage when percentage_sold > 0, for every pair of table
\* roles of different weight.
C9_RoleMonotonic ==
  (/\ Called
   /\ Len(transactions) = 1
   /\ transactions[1].title \in TableRoles
   /\ float_lt(Hundredths[0], Locals.percentage_sold)) =>
    \A t2 \in TableRoles :
      float_lt(ListedWeightOf[transactions[1].title], ListedWeightOf[t2]) =>
        float_lt(Locals.effective_percentage,
                 effective_percentage(Locals.percentage_sold, TitleWeight[t2]))

\* The same for the pairs of table roles whose applied weights differ.
C9_AppliedWeights ==
  (/\ Called
   /\ Len(transactions) = 1
   /\ float_lt(Hundredths[0], Locals.percentage_sold)
   /\ Locals.percentage_sold # float(100)) =>
    \A t2 \in Titles :
      float_lt(TitleWeight[transactions[1].title], TitleWeight[t2]) =>
        float_lt(Locals.effective_percentage,
                 effective_percentage(Locals.percentage_sold, TitleWeight[t2]))

DatesOf(txs) == {txs[i].transaction_date : i \in 1..Len(txs)}

\* C10: for a firing input of at least two records, time_clustered is True
\* exactly when the latest and the earliest transaction_date are at most 30
\* days apart: 30 days apart gives True, 31 days apart gives False.
C10_ClusteringWindow ==
  (Fired /\ Len(transactions) >= 2) =>
    /\ result.details.time_clustered \in {"True", "False"}
    /\ result.details.time_clustered = "True" <=>
         \A d1, d2 \in DatesOf(transactions) : DateOf[d1].days - DateOf[d2].days <= 30
    /\ DatesOf(transactions) = {Text("2025-01-15"), Text("2025-02-14")} =>
         result.details.time_clustered = "True"
    /\ {Text("2025-01-15"), Text("2025-02-15")} \subseteq DatesOf(transactions) =>
         result.details.time_clustered = "False"

\* A firing input whose records are exactly 30 days apart.
C10_Witness ==
  /\ Fired
  /\ Len(transactions) >= 2
  /\ DatesOf(transactions) = {Text("2025-01-15"), Text("2025-02-14")}
  /\ result.details.time_clustered = "True"
  /\ result.details.date_range_days = 30

\* C11: for a firing input with exactly one record no error is raised: the
\* scorer is invoked with is_clustered = False (cluster factor 0.5), and the
\* details report time_clustered as None and date_range_days as 0.
C11_SingleRecord ==
  (Called /\ Len(transactions) = 1 /\ Locals.threshold_exceeded) =>
    /\ result.kind = "Signal"
    /\ ~Locals.is_clustered
    /\ cluster_factor(Locals.is_clustered) = Hundredths[50]
    /\ result.confidence
         = calculate_confidence(Locals.percentage_sold, threshold, 1, FALSE,
                                TitleWeight[transactions[1].title])
    /\ result.details.time_clustered = "None"
    /\ result.details.date_range_days = 0

\* The same statement for the thresholds other than zero.
C11_SingleRecordNonZero ==
  ~IsZero(threshold) => C11_SingleRecord

\* C16: role weighting never suppresses a signal: the role multiplier applied
\* is at least 1.0 for every title, the effective percentage is at least
\* percentage_sold in every call, and for every non-empty input and positive
\* threshold percentage_sold >= threshold implies that the signal fires.
C16_NeverSuppresses ==
  (Called /\ transactions # <<>>) =>
    /\ \A i \in 1..Len(transactions) :
         float_le(Hundredths[100], TitleWeight[transactions[i].title])
    /\ float_le(Hundredths[100], Locals.role_multiplier)
    /\ float_le(Locals.percentage_sold, Locals.effective_percentage)
    /\ (/\ float_lt(Hundredths[0], threshold)
        /\ float_le(threshold, UnweightedPercentage(transactions)))
         => result.kind = "Signal"

\* A "10% Owner", listed at 0.7 in the table, whose percentage_sold reaches
\* the threshold but would not reach it when scaled by 0.7: the signal fired.
C16_Witness ==
  /\ Fired
  /\ Len(transactions) = 1
  /\ transactions[1].title = Text("10% Owner")
  /\ float_lt(Hundredths[0], threshold)
  /\ float_le(threshold, Locals.percentage_sold)
  /\ float_lt(float_mul(Locals.percentage_sold, Hundredths[70]), threshold)

\* The test's list of two sales has been analysed with threshold 40.0.
SampleCall ==
  Called /\ transactions = sample_transactions /\ threshold = float(40)

\* C12: for the list of two records (a CEO sells 150,000 leaving 200,000,
\* then a CFO sells 50,000 leaving 100,000) and threshold 40.0 the signal
\* fires, threshold_value is about 48.98 and the confidence is strictly
\* between 0 and 0.99.
C12_SampleScenario ==
  SampleCall =>
    /\ result.kind = "Signal"
    /\ float_le(Literal(4897, 2), result.threshold_value)
    /\ float_le(result.threshold_value, Literal(4899, 2))
    /\ float_lt(Hundredths[0], result.confidence)
    /\ float_lt(result.confidence, Hundredths[99])

\* C12 (amended): for that list and threshold 40.0 the signal fires,
\* threshold_value is 200000 / (100000 + 200000) * 100, which is 66.67 to two
\* places, and the confidence, about 0.767, is strictly between 0 and 0.99.
C12_SampleScenarioAmended ==
  SampleCall =>
    /\ result.kind = "Signal"
    /\ result.threshold_value
         = float_mul(float_truediv(PyInt(200000), PyInt(300000)), PyInt(100))
    /\ Round2(result.threshold_value) = Literal(6667, 2)
    /\ result.details.percentage_sold = Literal(6667, 2)
    /\ float_lt(Literal(766, 3), result.confidence)
    /\ float_lt(result.confidence, Literal(767, 3))
    /\ float_lt(Hundredths[0], result.confidence)
    /\ float_lt(result.confidence, Hundredths[99])

\* The test's list analysed with threshold 40.0 returned a signal.
C12_Witness ==
  SampleCall /\ result.kind = "Signal" /\ result.details.num_transactions = 2

\* All four confidence factors saturate: percentage_sold is at least twice
\* the positive threshold, there are at least three distinct insider names,
\* at least two records that span at most 30 days, and some record weighs 1.5.
Saturated(txs, thr) ==
  /\ float_lt(Hundredths[0], thr)
  /\ float_le(float_mul(float(2), thr), UnweightedPercentage(txs))
  /\ Cardinality({txs[i].insider_name : i \in 1..Len(txs)}) >= 3
  /\ Len(txs) >= 2
  /\ \A d1, d2 \in DatesOf(txs) : DateOf[d1].days - DateOf[d2].days <= 30
  /\ \E i \in 1..Len(txs) : TitleWeight[txs[i].title] = Literal(15, 1)

\* C13: when all four factors saturate the confidence is exactly 0.99, as for
\* five distinct chief executives who each sell 90,000 shares leaving 10,000
\* owned, at threshold 40.0.
C13_Saturation ==
  /\ (Called /\ transactions # <<>> /\ Saturated(transactions, threshold)) =>
       result.kind = "Signal" /\ result.confidence = Hundredths[99]
  /\ (Called /\ transactions = extreme_transactions /\ threshold = float(40)) =>
       /\ Saturated(transactions, threshold)
       /\ result.kind = "Signal"
       /\ result.confidence = Hundredths[99]

\* The five chief executives analysed at threshold 40.0: confidence 0.99.
C13_Witness ==
  /\ Called
  /\ transactions = extreme_transactions
  /\ threshold = float(40)
  /\ Saturated(transactions, threshold)
  /\ result.kind = "Signal"
  /\ result.confidence = Hundredths[99]

\* Three records of different insiders saturate the factors as well.
C13_WitnessThree ==
  /\ Called
  /\ Len(transactions) = 3
  /\ Saturated(transactions, threshold)
  /\ result.kind = "Signal"
  /\ result.confidence = Hundredths[99]

\* What C17 compares of a call's result: whether it fired, threshold_value
\* and confidence.
Outcome(r) ==
  IF r.kind = "Signal" THEN <<"Signal", r.threshold_value, r.confidence>> ELSE <<r.kind>>

\* The same three values of the call on every list of the order inputs.
OutcomeOn ==
  [txs \in OrderInputs |->
     [thr \in Thresholds |-> Outcome(detect_insider_selling_signal(txs, thr, 0).ret)]]

\* The list with its records before the last one rearranged by p.
Rearranged(txs, p) ==
  [i \in 1..Len(txs) |-> IF i < Len(txs) THEN txs[p[i]] ELSE txs[i]]

WithOwnedAfter(txs, i, o) == [txs EXCEPT ![i].shares_owned_after = o]

\* C17: the result depends on the order of the records only through which
\* record is last: every rearrangement of the records before the last one
\* gives the same fire decision, threshold_value and confidence, and so does
\* changing shares_owned_after of any record other than the last.
C17_OrderOnlyThroughLast ==
  Called =>
    /\ Outcome(result) = OutcomeOn[transactions][threshold]
    /\ \A p \in Permutations(1..(Len(transactions) - 1)) :
         OutcomeOn[Rearranged(transactions, p)][threshold] = Outcome(result)
    /\ \A i \in 1..(Len(transactions) - 1) : \A o \in {PyInt(0), PyInt(MaxShares)} :
         OutcomeOn[WithOwnedAfter(transactions, i, o)][threshold] = Outcome(result)

\* A fired call on three records whose first two differ in name, title, date,
\* shares sold and ownership, the ownership of the first also differing from
\* that of the last.
C17_Witness ==
  /\ Fired
  /\ Len(transactions) >= 3
  /\ transactions[1].insider_name # transactions[2].insider_name
  /\ transactions[1].title # transactions[2].title
  /\ transactions[1].transaction_date # transactions[2].transaction_date
  /\ transactions[1].shares_sold # transactions[2].shares_sold
  /\ transactions[1].shares_owned_after # transactions[2].shares_owned_after
  /\ transactions[1].shares_owned_after # transactions[Len(transactions)].shares_owned_after
  /\ float_lt(Hundredths[0], threshold)

(***************************************************************************)
(* Concurrent calls of detect_insider_selling_signal on one analyzer.      *)
(* Every caller holds a reference to a list object of the heap (both may   *)
(* hold the same one, the second list then being unused and empty) and     *)
(* runs the method step by step: the entry with the                        *)
(* empty-list test, one iteration of `for t in transactions' per step, and *)
(* the rest of the body.  total_sold, total_bought, weighted_sold and      *)
(* role_multiplier are locals of the frame of the call.  The clock ticks   *)
(* with every step.                                                        *)
(***************************************************************************)
Callers == {1, 2}

InterleaveRecords ==
  {Sale(Text("John Doe"), Text("Chief Executive Officer"), Text("2025-01-15"),
        PyInt(MaxShares), PyInt(MaxShares)),
   Sale(Text("Jane Smith"), Text("Consultant"), Text("2025-02-15"),
        PyInt(1), PyInt(MaxShares))}

InterleaveLists == UNION {[1..n -> InterleaveRecords] : n \in 0..MaxTx}

InterleaveThresholds == {float(-20), float(40)}

\* The variables of the single call are not in use.
NoSingleCall ==
  /\ transactions = <<>>
  /\ threshold = float(0)
  /\ result = NotCalled
  /\ pc = "idle"

InitInterleave ==
  /\ heap \in [1..2 -> InterleaveLists]
  /\ frames \in {[c \in Callers |-> NewFrame(IF c = 1 THEN 1 ELSE ref, thr[c])] :
                   ref \in 1..2, thr \in [Callers -> InterleaveThresholds]}
  /\ frames[2].transactions = 1 => heap[2] = <<>>
  /\ analyzer = SECFilingAnalyzer("None")
  /\ clock = 0
  /\ fs = <<>>
  /\ ipfs_added = <<>>
  /\ NoSingleCall

\* `if not transactions: return None'
Enter(c) ==
  LET f == frames[c]
  IN  /\ f.pc = "call"
      /\ frames' = [frames EXCEPT ![c] = Entered(f, heap[f.transactions])]
      /\ clock' = clock + 1
      /\ UNCHANGED <<transactions, threshold, result, pc, analyzer, heap, fs, ipfs_added>>

\* Faulty variant: the accumulators kept on the analyzer, so that every call
\* in flight reads and writes the same ones.
LoopStepShared(c) ==
  LET f   == frames[c]
      txs == heap[f.transactions]
      g   == Accumulate(f, txs[f.i], Len(txs))
  IN  /\ f.pc = "loop"
      /\ frames' = [d \in Callers |->
                      IF d = c THEN g
                      ELSE [frames[d] EXCEPT !.total_sold      = g.total_sold,
                                             !.total_bought    = g.total_bought,
                                             !.weighted_sold   = g.weighted_sold,
                                             !.role_multiplier = g.role_multiplier]]
      /\ clock' = clock + 1
      /\ UNCHANGED <<transactions, threshold, result, pc, analyzer, heap, fs, ipfs_added>>

\* One iteration of `for t in transactions'.
LoopStep(c) ==
  LET f   == frames[c]
      txs == heap[f.transactions]
  IN  /\ f.pc = "loop"
      /\ frames' = [frames EXCEPT ![c] = call_Accumulate(f, txs[f.i], Len(txs))]
      /\ clock' = clock + 1
      /\ UNCHANGED <<transactions, threshold, result, pc, analyzer, heap, fs, ipfs_added>>

\* The body after the loop, from the accumulators of the frame.
Decide(c) ==
  LET f == frames[c]
  IN  /\ f.pc = "decide"
      /\ frames' = [frames EXCEPT ![c] = call_finish(f, heap[f.transactions], clock)]
      /\ clock' = clock + 1
      /\ UNCHANGED <<transactions, threshold, result, pc, analyzer, heap, fs, ipfs_added>>

NextInterleave == \E c \in Callers : Enter(c) \/ LoopStep(c) \/ Decide(c)

SpecInterleave == InitInterleave /\ [][NextInterleave]_vars

\* A result without the timestamp detected_at.
Timeless(r) == IF r.kind = "Signal" THEN [r EXCEPT !.detected_at = 0] ELSE r

\* The calls that run alone: every list and threshold with what the call
\* returns on them.
AloneRuns ==
  {<<txs, thr, Timeless(detect_insider_selling_signal(txs, thr, 0).ret)>> :
     txs \in InterleaveLists, thr \in InterleaveThresholds}

\* Every finished call returned what the call returns when it runs alone on
\* its list and threshold.
AsAlone ==
  \A c \in Callers :
    frames[c].pc = "done" =>
      <<heap[frames[c].transactions], frames[c].threshold, Timeless(frames[c].ret)>>
        \in AloneRuns

\* C14: detect is free of side effects: no step changes the input lists, a
\* record in them or the state of the analyzer, so every call of any
\* interleaving of calls on the same analyzer returns the result it returns
\* when run alone, in every field except detected_at.
C14_SideEffectFree ==
  /\ [][heap' = heap /\ analyzer' = analyzer]_vars
  /\ []AsAlone

\* Two calls on the same non-empty list object ran interleaved (their signals
\* were built one tick apart, while a whole call takes at least three ticks)
\* with different thresholds and different confidences.
C14_Witness ==
  /\ frames # <<>>
  /\ \A c \in Callers : frames[c].pc = "done" /\ frames[c].ret.kind = "Signal"
  /\ frames[1].transactions = frames[2].transactions
  /\ Len(heap[frames[1].transactions]) >= 2
  /\ frames[2].ret.detected_at - frames[1].ret.detected_at \in {1, -1}
  /\ frames[1].threshold # frames[2].threshold
  /\ frames[1].ret.confidence # frames[2].ret.confidence

(***************************************************************************)
(* parse_form4_transactions.                                               *)
(*                                                                         *)
(* A content is bytes that are not UTF-8, text that is no XML document, or *)
(* a Form 4 document as BeautifulSoup presents it: the reportingOwnerName  *)
(* and reportingOwnerTitle tags and the nonDerivativeTransaction elements  *)
(* with their four tags.  A tag is absent, present without a <value>       *)
(* child, or present with the text of its <value>.                         *)
(***************************************************************************)
Absent == [tag |-> "absent"]

NoValue == [tag |-> "novalue"]

Value(text) == [tag |-> "value", text |-> text]

\* What one nonDerivativeTransaction element adds: nothing when one of the
\* four tags is absent, an exception when a <value> is missing or int()
\* fails, else a record.  The code is read first, then the date, the shares
\* and the ownership.
parse_element(owner, e) ==
  IF Absent \in {e.date, e.code, e.shares, e.owned}
    THEN [kind |-> "skip"]
  ELSE IF e.code = NoValue \/ e.date = NoValue
    THEN Raised("AttributeError")
  ELSE
    LET code    == call_strip(e.code.text)
        is_sale == code \in {Text("S"), Text("F")}
        shares  == py_int(e.shares.text, 10)
        owned   == py_int(e.owned.text, 10)
    IN  IF e.shares = NoValue THEN Raised("AttributeError")
        ELSE IF shares.kind = "Raise" THEN shares
        ELSE IF e.owned = NoValue THEN Raised("AttributeError")
        ELSE IF owned.kind = "Raise" THEN owned
        ELSE
          [kind |-> "record",
           record |->
             [insider_name       |-> IF owner.name = Absent THEN Text("Unknown")
                                     ELSE call_strip(owner.name.text),
              title              |-> IF owner.title = Absent THEN Text("Unknown")
                                     ELSE call_strip(owner.title.text),
              transaction_date   |-> call_strip(e.date.text),
              shares_sold        |-> IF is_sale THEN shares ELSE PyInt(0),
              shares_bought      |-> IF is_sale THEN PyInt(0) ELSE shares,
              shares_owned_after |-> owned,
              transaction_type   |-> IF is_sale THEN "Sale" ELSE "Purchase"]]

\* The loop over soup.find_all('nonDerivativeTransaction'); an exception ends
\* it and the records collected so far are returned.
RECURSIVE parse_loop(_, _, _, _)
parse_loop(owner, elements, i, collected) ==
  IF i > Len(elements) THEN collected
  ELSE LET r == call_parse_element(owner, elements[i])
       IN  CASE r.kind = "skip"   -> parse_loop(owner, elements, i + 1, collected)
             [] r.kind = "Raise"  -> collected
             [] r.kind = "record" ->
                  parse_loop(owner, elements, i + 1, Append(collected, r.record))

parse_form4_transactions(content) ==
  IF content.kind = "form4"
    THEN parse_loop(content.owner, content.elements, 1, <<>>)
    ELSE <<>>

(***************************************************************************)
(* The contents of the uploads and of the downloads.                       *)
(***************************************************************************)
NotUtf8 == [kind |-> "not_utf8"]

NotXml == [kind |-> "text"]

Form4(owner, elements) == [kind |-> "form4", owner |-> owner, elements |-> elements]

NamedOwner ==
  [name  |-> Value(Text("John Doe")),
   title |-> Value(Text(" Chief Executive Officer "))]

Owners == {NamedOwner, [name |-> Absent, title |-> Absent]}

Element(date, code, shares, owned) ==
  [date |-> date, code |-> code, shares |-> shares, owned |-> owned]

\* The elements of the filings with one transaction.
ElementsWide ==
  {Element(d, c, s, Value(IntText(MaxShares))) :
     d \in {Absent, Value(Text(" 2025-01-15"))},
     c \in {NoValue, Value(Text("S")), Value(Text("F")), Value(Text("P")), Value(Text(" S "))},
     s \in {Value(IntText(0)), Value(IntText(MaxShares)), Value(Text("1.5"))}}

FF == <<12>>

NBSP == <<160>>

LF == <<10>>

\* A sale of MaxShares shares that leaves MaxShares, on a date written as
\* given.
SaleOn(date) ==
  Element(Value(date), Value(Text("S")), Value(IntText(MaxShares)), Value(IntText(MaxShares)))

\* Elements whose texts int() and strip() accept in a form of their own (an
\* underscore between digits, a form feed or a no-break space at an end),
\* whose date is no calendar date or has a time of day, or that leave
\* nothing owned.
ElementsOdd ==
  {Element(Value(Text(" 2025-01-15")), Value(Text("S") \o FF), Value(Text("1_0")),
           Value(Text("1_000"))),
   Element(Value(FF \o Text("2025-01-15") \o NBSP), Value(Text("S")),
           Value(FF \o IntText(MaxShares)), Value(NBSP \o IntText(MaxShares) \o LF)),
   Element(Value(Text(" 2025-01-15")), Value(Text("S")), Value(Text("1__0")),
           Value(IntText(MaxShares))),
   Element(Value(Text(" 2025-01-15")), Value(Text("S")), Value(IntText(MaxShares)),
           Value(IntText(0))),
   SaleOn(Text("2025-02-30")),
   SaleOn(Text("2025/01/15"))}

\* The elements of the filings with several transactions: a sale, a purchase,
\* a sale of zero shares, an element without transactionDate, one whose
\* share count is no integer, and sales at a time of day, without and with
\* an offset from UTC.
ElementsNarrow ==
  {SaleOn(Text(" 2025-01-15")),
   Element(Value(Text(" 2025-01-15")), Value(Text("P")), Value(IntText(MaxShares)),
           Value(IntText(MaxShares))),
   Element(Value(Text(" 2025-01-15")), Value(Text("F")), Value(IntText(0)),
           Value(IntText(MaxShares))),
   Element(Absent, Value(Text("S")), Value(IntText(MaxShares)), Value(IntText(MaxShares))),
   Element(Value(Text(" 2025-01-15")), Value(Text("S")), Value(Text("1.5")),
           Value(IntText(MaxShares))),
   SaleOn(Text("2025-01-15T23:30:00")),
   SaleOn(Text("2025-01-15T00:00:00+00:00"))}

Uploads ==
  {NotUtf8, NotXml}
  \cup {Form4(w, es) : w \in Owners,
                       es \in {<<>>} \cup {<<e>> : e \in ElementsWide \cup ElementsOdd}}
  \cup {Form4(NamedOwner, es) : es \in UNION {[1..n -> ElementsNarrow] : n \in 2..MaxTx}}

UploadThresholds == {float(0), float(40)}

\* What download_sec_filing returns to POST /analyze/filing: None, text that
\* is no XML document, or a Form 4 document with a sale or with a purchase.
Downloads ==
  {None, NotXml,
   Form4(NamedOwner, <<SaleOn(Text(" 2025-01-15"))>>),
   Form4(NamedOwner, <<Element(Value(Text(" 2025-01-15")), Value(Text("P")),
                               Value(IntText(MaxShares)), Value(IntText(MaxShares)))>>)}

(***************************************************************************)
(* upload_to_ipfs and the handlers of api.py.  The module-level analyzer   *)
(* serves every request; ipfs_added is what the IPFS daemon has received.  *)
(***************************************************************************)
\* The return value of upload_to_ipfs: None without a connection or when
\* add_str raises, else the hash of the content.  added tells whether
\* add_str succeeds.
upload_to_ipfs(an, content, added) ==
  IF an.ipfs = "None" \/ ~added THEN None ELSE [kind |-> "str", ipfs_hash |-> content]

\* What the daemon has received after the call.
ipfs_after(an, content, added, received) ==
  IF an.ipfs = "None" \/ ~added THEN received ELSE Append(received, content)

\* The frame of a request: its handler, position and locals.
NewRequest(handler) == [kind |-> "request", handler |-> handler, pc |-> "request"]

\* Faulty variant: an empty parse result rejected with HTTPException(400) as
\* in POST /analyze/filing, which the handler's `except Exception' turns into
\* a 500.
response_rejecting_empty(content, txs, signal, ipfs_hash) ==
  IF content.kind = "not_utf8"
    THEN [status_code |-> 500, detail |-> "UnicodeDecodeError"]
  ELSE IF txs = <<>>
    THEN [status_code |-> 500, detail |-> "No transactions found in filing"]
  ELSE IF signal.kind = "Raise"
    THEN [status_code |-> 500, detail |-> signal.exc]
  ELSE IF signal = None
    THEN [status_code |-> 200,
          body |-> [status |-> "no_signal", message |-> "No abnormal activity detected"]]
  ELSE [status_code |-> 200,
        body |-> [status      |-> "signal_detected",
                  signal      |-> signal,
                  filing_hash |-> [sha256 |-> content],
                  ipfs_hash   |-> ipfs_hash]]

\* The response of analyze_uploaded_filing: a returned dict is a 200, any
\* exception a 500.
upload_response(content, txs, signal, ipfs_hash) ==
  IF content.kind = "not_utf8"
    THEN [status_code |-> 500, detail |-> "UnicodeDecodeError"]
  ELSE IF signal.kind = "Raise"
    THEN [status_code |-> 500, detail |-> signal.exc]
  ELSE IF signal = None
    THEN [status_code |-> 200,
          body |-> [status |-> "no_signal", message |-> "No abnormal activity detected"]]
  ELSE [status_code |-> 200,
        body |-> [status      |-> "signal_detected",
                  signal      |-> signal,
                  filing_hash |-> [sha256 |-> content],
                  ipfs_hash   |-> ipfs_hash]]

\* The response of analyze_filing: an HTTPException raised by the handler
\* passes, any other exception is a 500.
filing_response(content, txs, signal, ipfs_hash) ==
  IF content = None
    THEN [status_code |-> 404, detail |-> "Filing not found"]
  ELSE IF txs = <<>>
    THEN [status_code |-> 400, detail |-> "No transactions found in filing"]
  ELSE IF signal.kind = "Raise"
    THEN [status_code |-> 500, detail |-> signal.exc]
  ELSE IF signal = None
    THEN [status_code |-> 200, detail |-> "No signal detected"]
  ELSE [status_code |-> 200,
        body |-> [filing_hash |-> [sha256 |-> content], ipfs_hash |-> ipfs_hash] @@ signal]

\* The handler analyze_uploaded_filing from `content.decode' to the call of
\* the detector, for the frame f of a request whose file has been read.
analysed_upload(f, now) ==
  IF f.content.kind = "not_utf8" THEN f
  ELSE LET txs == parse_form4_transactions(f.content)
       IN  [transactions |-> txs,
            signal       |-> call_detect_insider_selling_signal(txs, f.threshold, now).ret] @@ f

\* The rest of the handler: the upload to IPFS when a signal fired, and the
\* response.
responded_upload(l, an, added) ==
  LET respond(g, txs, signal, ipfs_hash) ==
        [pc |-> "responded",
         response |-> upload_response(l.content, txs, signal, ipfs_hash)] @@ g
  IN  IF l.content.kind = "not_utf8" THEN respond(l, <<>>, NotCalled, None)
      ELSE IF l.signal.kind = "Signal"
        THEN respond([ipfs_hash |-> upload_to_ipfs(an, l.content, added)] @@ l,
                     l.transactions, l.signal, upload_to_ipfs(an, l.content, added))
      ELSE respond(l, l.transactions, l.signal, None)

\* A client sends POST /analyze/upload with a content and a threshold; the
\* handler runs until `await file.read()'.
Client == 1

Other == 2

ReadUpload ==
  /\ frames[Client].pc = "request"
  /\ frames' = [frames EXCEPT ![Client] = [@ EXCEPT !.pc = "read"]]
  /\ clock' = clock + 1
  /\ UNCHANGED <<transactions, threshold, result, pc, analyzer, heap, fs, ipfs_added>>

\* The rest of the handler, once the file has been read.
HandleUpload ==
  /\ frames[Client].pc = "read"
  /\ \E l \in {call_analysed_upload(frames[Client], clock)}, added \in BOOLEAN :
       /\ frames' = [frames EXCEPT ![Client] = responded_upload(l, analyzer, added)]
       /\ ipfs_added' = IF l.content.kind # "not_utf8" /\ l.signal.kind = "Signal"
                          THEN ipfs_after(analyzer, l.content, added, ipfs_added)
                          ELSE ipfs_added
  /\ clock' = clock + 1
  /\ UNCHANGED <<transactions, threshold, result, pc, analyzer, heap, fs>>

\* The handler analyze_filing from the parse of the downloaded text to the
\* call of the detector, with the default threshold 40.0.
analysed_filing(content, now) ==
  LET txs == IF content = None THEN <<>> ELSE parse_form4_transactions(content)
  IN  [transactions |-> txs,
       signal       |-> IF txs = <<>> THEN NotCalled
                        ELSE call_detect_insider_selling_signal(txs, float(40), now).ret]

\* Another client's POST /analyze/filing; the handler has no await and runs
\* as one step.
AnalyzeFiling ==
  /\ frames[Other].pc = "request"
  /\ \E content \in Downloads, added \in BOOLEAN :
       \E l \in {call_analysed_filing(content, clock)} :
         /\ frames' = [frames EXCEPT ![Other] =
                         [pc       |-> "responded",
                          handler  |-> "analyze_filing",
                          content  |-> content,
                          response |->
                            filing_response(content, l.transactions, l.signal,
                              IF l.signal.kind = "Signal"
                                THEN upload_to_ipfs(analyzer, content, added)
                                ELSE None)]
                         @@ @]
         /\ ipfs_added' = IF l.signal.kind = "Signal"
                            THEN ipfs_after(analyzer, content, added, ipfs_added)
                            ELSE ipfs_added
  /\ clock' = clock + 1
  /\ UNCHANGED <<transactions, threshold, result, pc, analyzer, heap, fs>>

\* A direct call of the public method upload_to_ipfs with some text.
UploadToIpfs ==
  /\ frames[Other].pc = "request"
  /\ \E added \in BOOLEAN :
       /\ frames' = [frames EXCEPT ![Other] =
                       [pc      |-> "responded",
                        handler |-> "upload_to_ipfs",
                        content |-> NotXml,
                        ret     |-> upload_to_ipfs(analyzer, NotXml, added)] @@ @]
       /\ ipfs_added' = ipfs_after(analyzer, NotXml, added, ipfs_added)
  /\ clock' = clock + 1
  /\ UNCHANGED <<transactions, threshold, result, pc, analyzer, heap, fs>>

InitUpload ==
  /\ frames \in {<<[content |-> c, threshold |-> thr] @@ NewRequest("analyze_uploaded_filing"),
                   NewRequest("none")>> :
                   c \in Uploads, thr \in UploadThresholds}
  /\ analyzer \in {SECFilingAnalyzer("None"), SECFilingAnalyzer("connected")}
  /\ ipfs_added = <<>>
  /\ clock = 0
  /\ heap = <<>>
  /\ fs = <<>>
  /\ NoSingleCall

NextUpload == ReadUpload \/ HandleUpload \/ AnalyzeFiling \/ UploadToIpfs

SpecUpload == InitUpload /\ [][NextUpload]_vars

Responded == frames # <<>> /\ frames[Client].pc = "responded"

\* The records parsed from the upload, once it has been answered.
Parsed ==
  IF frames[Client].content.kind = "not_utf8" THEN <<>> ELSE frames[Client].transactions

\* C15: every record produced by parse_form4_transactions has exactly one of
\* shares_sold and shares_bought non-zero: a Sale (code S or F) has
\* shares_bought = 0 and shares_sold > 0, a Purchase (any other code) has
\* shares_sold = 0 and shares_bought > 0.
C15_ParsedRecords ==
  Responded =>
    \A i \in 1..Len(Parsed) :
      LET t == Parsed[i]
      IN  /\ IsZero(t.shares_sold) # IsZero(t.shares_bought)
          /\ t.transaction_type = "Sale" =>
               IsZero(t.shares_bought) /\ float_lt(PyInt(0), t.shares_sold)
          /\ t.transaction_type = "Purchase" =>
               IsZero(t.shares_sold) /\ float_lt(PyInt(0), t.shares_bought)

\* What holds of every parsed record: at most one of the two counts is
\* non-zero, a Sale has shares_bought = 0 and a Purchase shares_sold = 0.
C15_AtMostOneNonZero ==
  Responded =>
    \A i \in 1..Len(Parsed) :
      LET t == Parsed[i]
      IN  /\ IsZero(t.shares_sold) \/ IsZero(t.shares_bought)
          /\ float_le(PyInt(0), t.shares_sold) /\ float_le(PyInt(0), t.shares_bought)
          /\ t.transaction_type = "Sale" => IsZero(t.shares_bought)
          /\ t.transaction_type = "Purchase" => IsZero(t.shares_sold)

\* A sale of zero shares, paid with code F, has been parsed.
C15_ZeroSale ==
  /\ Responded
  /\ Len(Parsed) = 1
  /\ Parsed[1].transaction_type = "Sale"
  /\ IsZero(Parsed[1].shares_sold)
  /\ IsZero(Parsed[1].shares_bought)

\* The step of the upload's handler after the file has been read.
Handling == frames[Client].pc = "read" /\ frames'[Client].pc = "responded"

\* C19: an upload of UTF-8 content from which no transaction record can be
\* parsed causes no server error: the parser returns an empty list, the
\* detector returns no signal, the request adds nothing to IPFS and the
\* response is HTTP 200 with status 'no_signal'.
C19_UnparsableUpload ==
  [][(/\ Handling
      /\ frames[Client].content.kind # "not_utf8"
      /\ parse_form4_transactions(frames[Client].content) = <<>>) =>
       /\ frames'[Client].transactions = <<>>
       /\ frames'[Client].signal = None
       /\ ipfs_added' = ipfs_added
       /\ frames'[Client].response.status_code = 200
       /\ frames'[Client].response.body.status = "no_signal"]_vars

\* The upload of text that is no XML document, with the IPFS daemon
\* connected, has been answered with 200 and 'no_signal' after another
\* request added a filing to IPFS while the file was being read.
C19_Witness ==
  /\ Responded
  /\ frames[Client].content = NotXml
  /\ analyzer.ipfs = "connected"
  /\ frames[Client].transactions = <<>>
  /\ frames[Client].response.status_code = 200
  /\ frames[Client].response.body.status = "no_signal"
  /\ frames[Other].pc = "responded"
  /\ frames[Other].handler = "analyze_filing"
  /\ Len(ipfs_added) = 1

\* A Form 4 document whose only transaction cannot be read is answered the
\* same way.
C19_WitnessForm4 ==
  /\ Responded
  /\ frames[Client].content.kind = "form4"
  /\ Len(frames[Client].content.elements) >= 1
  /\ frames[Client].transactions = <<>>
  /\ frames[Client].response.status_code = 200
  /\ frames[Client].response.body.status = "no_signal"

(***************************************************************************)
(* generate_zk_proof.  The filing hash is a str, the number it denotes a   *)
(* Python int and bytes a sequence of numbers 0..255.  The keccak hash     *)
(* reduced modulo the BN254 field is kept as a term over the bytes it is   *)
(* taken of.                                                               *)
(***************************************************************************)
\* x >> n: the floor of x / 2^n, also for a negative x.
int_rshift(x, n) ==
  IF x.neg THEN BigInt(TRUE, BAdd(BShr(BSub(x.m, <<1>>), n), <<1>>))
  ELSE BigInt(FALSE, BShr(x.m, n))

\* x & ((1 << n) - 1): x modulo 2^n, which is not negative.
int_and_mask(x, n) ==
  LET low == BSub(x.m, BShl(BShr(x.m, n), n))
  IN  IF x.neg /\ low # <<>> THEN BigInt(FALSE, BSub(BShl(<<1>>, n), low))
      ELSE BigInt(FALSE, low)

\* x.to_bytes(length, 'big')
to_bytes(x, length) ==
  IF x.neg \/ BBitLen(x.m) > 8 * length
    THEN Raised("OverflowError")
    ELSE [kind |-> "bytes",
          value |-> [i \in 1..length |->
                       LET low == 8 * (length - i)
                       IN  BBit(x.m, low) + 2 * BBit(x.m, low + 1) + 4 * BBit(x.m, low + 2)
                           + 8 * BBit(x.m, low + 3) + 16 * BBit(x.m, low + 4)
                           + 32 * BBit(x.m, low + 5) + 64 * BBit(x.m, low + 6)
                           + 128 * BBit(x.m, low + 7)]]

filing_hash_high(x) == call_int_rshift(x, 128)

\* Faulty variant: the low part truncated to 64 bits.
filing_hash_low_truncated(x) == int_and_mask(x, 64)

filing_hash_low(x) == call_int_and_mask(x, 128)

\* high.to_bytes(16, 'big') + low.to_bytes(16, 'big')
combined_bytes(x) ==
  LET hb == call_to_bytes(filing_hash_high(x), 16)
      lb == call_to_bytes(filing_hash_low(x), 16)
  IN  IF hb.kind = "Raise" THEN hb
      ELSE IF lb.kind = "Raise" THEN lb
      ELSE [kind |-> "bytes", value |-> hb.value \o lb.value]

\* int.from_bytes(Web3.keccak(bytes), 'big') % BN254_FIELD_MODULUS, as text.
filing_hash_field(bytes) == [keccak256_mod_field |-> bytes]

\* The values os.urandom gives the salt.
Salts == {"salt a", "salt b"}

NewProofFrame(h, thr, total, sold) ==
  [pc             |-> "call",
   filing_hash    |-> h,
   threshold      |-> thr,
   total_shares   |-> total,
   shares_sold    |-> sold,
   combined_bytes |-> None,
   input_data     |-> None,
   input_read     |-> None,
   witness_read   |-> None,
   proof_data     |-> None,
   ret            |-> NotCalled]

\* The frame after the conversion of the filing hash, with the input of the
\* circuit.  An exception of the conversion leaves the call.
prepared(f, salt) ==
  LET x == py_int(f.filing_hash, 16)
      bytes == call_combined_bytes(x)
  IN  IF x.kind = "Raise" THEN [f EXCEPT !.pc = "done", !.ret = x]
      ELSE IF bytes.kind = "Raise" THEN [f EXCEPT !.pc = "done", !.ret = bytes]
      ELSE [f EXCEPT !.pc = "prepared",
                     !.combined_bytes = bytes.value,
                     !.input_data =
                        [filingHash  |-> filing_hash_field(bytes.value),
                         threshold   |-> f.threshold,
                         totalShares |-> f.total_shares,
                         sharesSold  |-> f.shares_sold,
                         salt        |-> salt]]

(***************************************************************************)
(* The call of the function named f with the arguments a.                  *)
(***************************************************************************)
call(f, a) ==
  CASE f = "RoundFloat" -> RoundFloat(a[1], a[2], a[3], a[4])
    [] f = "float_lt" -> float_lt(a[1], a[2])
    [] f = "float_mul" -> float_mul(a[1], a[2])
    [] f = "float_sum" -> float_sum(a[1], a[2])
    [] f = "float_truediv" -> float_truediv(a[1], a[2])
    [] f = "BDiv" -> BDiv(a[1], a[2])
    [] f = "int_add" -> int_add(a[1], a[2])
    [] f = "Round2" -> Round2(a[1])
    [] f = "Literal" -> Literal(a[1], a[2])
    [] f = "lower" -> lower(a[1])
    [] f = "strip" -> strip(a[1])
    [] f = "to_ascii" -> to_ascii(a[1])
    [] f = "int_value" -> int_value(a[1], a[2])
    [] f = "int_stripped" -> int_stripped(a[1])
    [] f = "int_of" -> int_of(a[1], a[2], a[3])
    [] f = "int_parsed" -> int_parsed(a[1], a[2])
    [] f = "RoleWeight" -> RoleWeight(a[1])
    [] f = "iso_week1_monday" -> iso_week1_monday(a[1])
    [] f = "iso_to_ymd" -> iso_to_ymd(a[1], a[2], a[3])
    [] f = "find_isoformat_datetime_separator" -> find_isoformat_datetime_separator(a[1])
    [] f = "parse_isoformat_date" -> parse_isoformat_date(a[1], a[2])
    [] f = "parse_fraction" -> parse_fraction(a[1], a[2], a[3], a[4])
    [] f = "parse_hh_mm_ss_ff" -> parse_hh_mm_ss_ff(a[1], a[2], a[3])
    [] f = "parse_isoformat_time" -> parse_isoformat_time(a[1], a[2])
    [] f = "fromisoformat" -> fromisoformat(a[1])
    [] f = "date_range_days" -> date_range_days(a[1])
    [] f = "role_weight_of" -> role_weight_of(a[1])
    [] f = "date_of" -> date_of(a[1])
    [] f = "Accumulate" -> Accumulate(a[1], a[2], a[3])
    [] f = "percentage_sold" -> percentage_sold(a[1], a[2])
    [] f = "threshold_factor" -> threshold_factor(a[1], a[2])
    [] f = "insider_factor" -> insider_factor(a[1])
    [] f = "role_factor" -> role_factor(a[1])
    [] f = "calculate_confidence" -> calculate_confidence(a[1], a[2], a[3], a[4], a[5])
    [] f = "InsiderSignal" -> InsiderSignal(a[1], a[2], a[3])
    [] f = "finish" -> finish(a[1], a[2], a[3])
    [] f = "detect_insider_selling_signal" -> detect_insider_selling_signal(a[1], a[2], a[3])
    [] f = "parse_element" -> parse_element(a[1], a[2])
    [] f = "analysed_upload" -> analysed_upload(a[1], a[2])
    [] f = "analysed_filing" -> analysed_filing(a[1], a[2])
    [] f = "int_rshift" -> int_rshift(a[1], a[2])
    [] f = "int_and_mask" -> int_and_mask(a[1], a[2])
    [] f = "to_bytes" -> to_bytes(a[1], a[2])
    [] f = "combined_bytes" -> combined_bytes(a[1])
    [] f = "prepared" -> prepared(a[1], a[2])

ProofUnchanged ==
  UNCHANGED <<transactions, threshold, result, pc, clock, analyzer, heap, ipfs_added>>

Prepare(c) ==
  /\ frames[c].pc = "call"
  /\ \E salt \in Salts : frames' = [frames EXCEPT ![c] = call_prepared(frames[c], salt)]
  /\ fs' = fs
  /\ ProofUnchanged

\* The hashes of the conversion: four 64-bit quarters each taken from four
\* patterns, with and without the 0x prefix, the hashes of the tests and of
\* main(), and texts that are no 256-bit hash: one int() rejects, one of 65
\* digits, a negative one, and ones int() accepts with white space around
\* or underscores between the digits.
Quarters ==
  {Text("0000000000000000"), Text("ffffffffffffffff"), Text("1a2b3c4d5e6f7890"),
   Text("00000000ABCDEF12")}

TEST_HASH == Text("0x1a2b3c4d5e6f7890abcdef1234567890abcdef1234567890abcdef1234567890")

MOCK_HASH == Text("a7fb9b2ffccfb02886fe305b67ddf51e1540545d21756779a4a164f8336c58c4")

HashInputs ==
  LET HexHashes ==
        {a \o b \o c \o d : a \in Quarters, b \in Quarters, c \in Quarters, d \in Quarters}
  IN  HexHashes \cup {Text("0x") \o h : h \in HexHashes}
  \cup {TEST_HASH, MOCK_HASH, Text("not a hash"), Text("1") \o MOCK_HASH,
        Text("-") \o MOCK_HASH, Text(" ") \o MOCK_HASH \o <<10>>,
        Text("0x_a7fb_9b2f"), Text("-1")}

InitHash ==
  /\ frames \in {[c \in {1} |-> NewProofFrame(h, 40, 120000, 80000)] : h \in HashInputs}
  /\ heap = <<>>
  /\ fs = <<>>
  /\ ipfs_added = <<>>
  /\ analyzer = SECFilingAnalyzer("None")
  /\ clock = 0
  /\ NoSingleCall

NextHash == \E c \in DOMAIN frames : Prepare(c)

SpecHash == InitHash /\ [][NextHash]_vars

\* The text of a hash without its 0x prefix, and the 32 bytes it writes.
HexOf(h) ==
  IF Len(h) >= 2 /\ h[1] = 48 /\ h[2] \in {88, 120} THEN SubSeq(h, 3, Len(h)) ELSE h

HexVal(c) ==
  IF c >= 48 /\ c <= 57 THEN c - 48
  ELSE IF c >= 97 /\ c <= 102 THEN c - 87
  ELSE IF c >= 65 /\ c <= 70 THEN c - 55
  ELSE -1

Is256BitHash(h) ==
  Len(HexOf(h)) = 64 /\ \A i \in 1..64 : HexVal(HexOf(h)[i]) >= 0

OriginalBytes(h) ==
  [i \in 1..32 |-> 16 * HexVal(HexOf(h)[2 * i - 1]) + HexVal(HexOf(h)[2 * i])]

\* C20: for every 256-bit filing hash, the high 128 bits (>> 128) and the low
\* 128 bits (& (2^128 - 1)) written as two 16-byte big-endian values and
\* concatenated are exactly 32 bytes, equal to the original hash.
C20_HashSplit ==
  \A c \in DOMAIN frames :
    (frames[c].pc # "call" /\ Is256BitHash(frames[c].filing_hash)) =>
      /\ frames[c].pc = "prepared"
      /\ Len(frames[c].combined_bytes) = 32
      /\ frames[c].combined_bytes = OriginalBytes(frames[c].filing_hash)

\* The hash of the test, whose two halves are both non-zero, has been
\* converted.
C20_Witness ==
  /\ frames # <<>>
  /\ frames[1].pc = "prepared"
  /\ frames[1].filing_hash = TEST_HASH
  /\ Len(frames[1].combined_bytes) = 32
  /\ frames[1].combined_bytes[1] = 26
  /\ frames[1].combined_bytes[32] = 144

\* A hash whose high half is zero and whose low half has leading zero bytes
\* has been converted to 32 bytes.
C20_WitnessZeros ==
  /\ frames # <<>>
  /\ frames[1].pc = "prepared"
  /\ \A i \in 1..24 : frames[1].combined_bytes[i] = 0
  /\ frames[1].combined_bytes[32] # 0

(***************************************************************************)
(* The rest of generate_zk_proof: the files under /tmp, the witness        *)
(* generator and the prover run as subprocesses, and the comparison of the *)
(* public signals.  The files are shared by every call on the machine.     *)
(***************************************************************************)
\* A file opened for writing and not written yet.
Truncated == [kind |-> "empty file"]

\* A file that two calls had open for writing at once, when the text written
\* last is shorter than the one before: the start of one text and the end of
\* the other, which is no JSON document.
Mixed == [kind |-> "mixed file"]

WriteFile(files, path, data) ==
  [p \in DOMAIN files \cup {path} |-> IF p = path THEN data ELSE files[p]]

\* open(input_file, 'w')
OpenInput(c) ==
  /\ frames[c].pc = "prepared"
  /\ fs' = WriteFile(fs, "/tmp/input.json", Truncated)
  /\ frames' = [frames EXCEPT ![c].pc = "opened"]
  /\ ProofUnchanged

\* json.dump(input_data, f) and the end of the `with' block, where the text
\* reaches the file, from its first byte on.  On a file that another call
\* has written since this one opened it, the text replaces the other one
\* when it is as long (covers), and else leaves its end in the file.
DumpInput(c) ==
  /\ frames[c].pc = "opened"
  /\ \E covers \in BOOLEAN :
       fs' = WriteFile(fs, "/tmp/input.json",
                       IF covers \/ fs["/tmp/input.json"] \in {Truncated, frames[c].input_data}
                         THEN frames[c].input_data
                         ELSE Mixed)
  /\ frames' = [frames EXCEPT ![c].pc = "input written"]
  /\ ProofUnchanged

\* The witness generator reads the input file; it fails on an input that is
\* not JSON, and may fail on any input the circuit rejects.  A failure is
\* caught and the call returns None.
ReadInput(c) ==
  /\ frames[c].pc = "input written"
  /\ \E ok \in BOOLEAN :
       frames' = [frames EXCEPT ![c] =
                    IF ok /\ fs["/tmp/input.json"] \notin {Truncated, Mixed}
                      THEN [@ EXCEPT !.pc = "input read", !.input_read = fs["/tmp/input.json"]]
                      ELSE [@ EXCEPT !.pc = "done", !.ret = None]]
  /\ fs' = fs
  /\ ProofUnchanged

\* The witness generator writes the witness of the input it read.
GenerateWitness(c) ==
  /\ frames[c].pc = "input read"
  /\ fs' = WriteFile(fs, "/tmp/witness.wtns", [witness_of |-> frames[c].input_read])
  /\ frames' = [frames EXCEPT ![c].pc = "witness written"]
  /\ ProofUnchanged

\* snarkjs groth16 prove reads the witness file; a failure is caught and the
\* call returns None.
ReadWitness(c) ==
  /\ frames[c].pc = "witness written"
  /\ \E ok \in BOOLEAN :
       frames' = [frames EXCEPT ![c] =
                    IF ok THEN [@ EXCEPT !.pc = "proving", !.witness_read = fs["/tmp/witness.wtns"]]
                    ELSE [@ EXCEPT !.pc = "done", !.ret = None]]
  /\ fs' = fs
  /\ ProofUnchanged

\* Public signals that are those of no call: the field element of no bytes
\* and an empty text.
OtherSignals == <<filing_hash_field(<<>>), <<>>>>

\* The prover writes the proof of the witness it read,
ProveProof(c) ==
  /\ frames[c].pc = "proving"
  /\ fs' = WriteFile(fs, "/tmp/proof.json", [proof_of |-> frames[c].witness_read.witness_of])
  /\ frames' = [frames EXCEPT ![c].pc = "proof written"]
  /\ ProofUnchanged

\* and then the public signals.  The circuit is not part of the sources:
\* its signals are the two the asserts of the caller compare, taken from the
\* input of the witness, or any others.
ProvePublic(c) ==
  /\ frames[c].pc = "proof written"
  /\ \E expected \in BOOLEAN :
       LET input == frames[c].witness_read.witness_of
       IN  fs' = WriteFile(fs, "/tmp/public.json",
                           IF expected THEN <<input.filingHash, IntText(input.threshold)>>
                           ELSE OtherSignals)
  /\ frames' = [frames EXCEPT ![c].pc = "proved"]
  /\ ProofUnchanged

\* proof_data = json.load(open("/tmp/proof.json"))
ReadProof(c) ==
  /\ frames[c].pc = "proved"
  /\ frames' = [frames EXCEPT ![c].pc = "proof read", ![c].proof_data = fs["/tmp/proof.json"]]
  /\ fs' = fs
  /\ ProofUnchanged

\* The public signals are read and compared with the filing hash field and
\* the threshold of the call; a failed assert is caught and gives None.
CheckSignals(c) ==
  LET f      == frames[c]
      public == fs["/tmp/public.json"]
  IN  /\ f.pc = "proof read"
      /\ frames' = [frames EXCEPT ![c].pc = "done",
                      ![c].ret = IF /\ public[1] = f.input_data.filingHash
                                    /\ public[2] = IntText(f.threshold)
                                   THEN [kind |-> "bytes", json |-> f.proof_data]
                                   ELSE None]
      /\ fs' = fs
      /\ ProofUnchanged

\* Two calls: the one of main(), and one that differs from it in the filing
\* hash, the threshold, the total shares or the shares sold.
OtherCalls ==
  {NewProofFrame(TEST_HASH, 40, 120000, 80000),
   NewProofFrame(MOCK_HASH, 30, 120000, 80000),
   NewProofFrame(MOCK_HASH, 40, 100000, 80000),
   NewProofFrame(MOCK_HASH, 40, 120000, 50000)}

InitProof ==
  /\ frames \in {[c \in Callers |->
                    IF c = 1 THEN NewProofFrame(MOCK_HASH, 40, 120000, 80000) ELSE other] :
                   other \in OtherCalls}
  /\ heap = <<>>
  /\ fs = <<>>
  /\ ipfs_added = <<>>
  /\ analyzer = SECFilingAnalyzer("None")
  /\ clock = 0
  /\ NoSingleCall

NextProof ==
  \E c \in Callers :
    \/ Prepare(c)
    \/ OpenInput(c)
    \/ DumpInput(c)
    \/ ReadInput(c)
    \/ GenerateWitness(c)
    \/ ReadWitness(c)
    \/ ProveProof(c)
    \/ ProvePublic(c)
    \/ ReadProof(c)
    \/ CheckSignals(c)

SpecProof == InitProof /\ [][NextProof]_vars

\* The arguments of a call as they enter the input of the circuit.
OwnInputs(f, input) ==
  /\ input.filingHash = f.input_data.filingHash
  /\ input.threshold = f.threshold
  /\ input.totalShares = f.total_shares
  /\ input.sharesSold = f.shares_sold
  /\ input.salt = f.input_data.salt

ReturnedProof(f) == f.pc = "done" /\ f.ret.kind = "bytes"

\* C18: of two interleaved generate_zk_proof calls with different inputs,
\* each returns None or a proof generated from its own inputs, never the
\* proof of the other call.
C18_OwnProof ==
  \A c \in DOMAIN frames :
    ReturnedProof(frames[c]) => OwnInputs(frames[c], frames[c].ret.json.proof_of)

\* A call has returned a proof that was generated from its own inputs.
C18_ReturnsOwn ==
  \E c \in DOMAIN frames :
    ReturnedProof(frames[c]) /\ OwnInputs(frames[c], frames[c].ret.json.proof_of)
====
